---- MODULE Spec2Model ----
(***************************************************************************)
(* Incremental attachment-sync engine of the outlook-graph skill:          *)
(* download-recent and download-new runs over one stream (state.json and   *)
(* ledger.jsonl), against a mailbox served by the Graph API.               *)
(*                                                                         *)
(* Time.  A datetime is an integer number of ticks, Res ticks to the       *)
(* second, so that sub-second receive times exist and iso_utc (which drops *)
(* the sub-second part) is not the identity.  A timestamp string is        *)
(* modelled by the instant it denotes; an Optional value is a sequence of  *)
(* length 0 (None) or 1.                                                   *)
(***************************************************************************)
EXTENDS Integers, Sequences, FiniteSets, TLC

\* ------------------------------------------------------------------ bounds
Res == 2
MaxRuns == 2
MaxFaults == 1
ServerPageMax == 2
MaxSaves == 2
MaxPathLen == 3
MaxRetriesTried == 2
MaxPages == 3

\* ------------------------------------------------------- program constants
FIRST_RUN_BACKFILL_DAYS == 15
DEFAULT_OVERLAP_HOURS == 48
DEFAULT_MAX_PAGES == 20
DEFAULT_MAX_MESSAGES == 1000
DEFAULT_RECENT_TOP == 10
\* uniquify_path tries the suffixes range(1, CANDIDATE_STOP).
CANDIDATE_STOP == 1000
\* The not-found error of a folder path names at most this many children.
PREVIEW_LIMIT == 20
\* GraphClient(max_retries = 2).
DEFAULT_MAX_RETRIES == 2

Second == Res
Hour == 3600 * Second
Day == 24 * Hour

Min(a, b) == IF a <= b THEN a ELSE b
Max(a, b) == IF a >= b THEN a ELSE b

None == <<>>
Some(v) == <<v>>

\* ------------------------------------------------------- the mailbox served
\* Clock reading when the model starts.
T0 == 20 * Day

Msgs == {"m1", "m2", "m3", "m4"}

\* The id field of a listed message record; the record m4 carries none.
MessageIdOf(m) == IF m = "m4" THEN "" ELSE m

\* What the folder may hold when the model starts, and the messages that may
\* arrive later.
InitialFolders == { {}, {"m1", "m2"}, Msgs }
LateMsgs == {"m3"}

\* receivedDateTime of each message; m3 carries a sub-second part.
Received(m) ==
    CASE m = "m1" -> T0 - 10 * Day
      [] m = "m2" -> T0 - 5 * Day
      [] m = "m3" -> T0 - Day + 1
      [] m = "m4" -> T0 - 2 * Day

\* The attachment records list_attachments returns: none for m1 (and none is
\* ever asked for m4), and the first attachment of m3 has no id.
Attachments(m) ==
    CASE m \in {"m1", "m4"} -> << >>
      [] m = "m2" -> << [id |-> "a1", name |-> "scan.pdf", size |-> 20],
                        [id |-> "a2", name |-> "report.pdf", size |-> 30] >>
      [] m = "m3" -> << [id |-> "", name |-> "logo.png", size |-> 7],
                        [id |-> "a1", name |-> "report.pdf", size |-> 10] >>

\* ------------------------------------------------------------ time helpers
now_utc(clk) == (clk \div Res) * Res

iso_utc(value) == (value \div Res) * Res

parse_graph_datetime(raw) == IF raw = None THEN None ELSE Some(raw[1])

\* ------------------------------------------------------------- dedupe keys
\* Variant: the name is part of every key.
build_dedupe_key_with_name(message_id, attachment) ==
    message_id \o ":" \o attachment.id \o ":" \o attachment.name

\* build_dedupe_key (lines 1618-1625); the ids served carry no surrounding
\* blanks, so strip() leaves them as they are.
build_dedupe_key(message_id, attachment) ==
    IF attachment.id # ""
    THEN message_id \o ":" \o attachment.id
    ELSE message_id \o ":" \o attachment.name \o ":" \o ToString(attachment.size)

\* Every key of the universe, in the order json.dumps(sort_keys=True) writes
\* the pending_failures object (and so the order a later load iterates it).
SortedKeys == << "m2:a1", "m2:a2", "m3:a1", "m3:logo.png:7" >>

\* ------------------------------------------------------------ stream state
EmptyPending == [k \in {} |-> [message_id |-> "", attachment_id |-> "", attempts |-> 0]]

default_stream_state ==
    [ complete |-> TRUE,
      first_run_completed |-> FALSE,
      cursor_received_utc |-> None,
      pending_failures |-> EmptyPending,
      downloaded_total |-> 0,
      skipped_total |-> 0,
      failed_total |-> 0 ]

\* Variant: the document is taken as it is.
StateFileReadable_unchecked(file) == TRUE

\* A state.json that does not parse (complete = FALSE) is a hard failure,
\* reported by StateFileReadable; otherwise defaults merged with the document.
StateFileReadable(file) == file = <<>> \/ file[1].complete

load_stream_state(file) == IF file = <<>> THEN default_stream_state ELSE file[1]

record_pending_failure(state, dedupe_key, message_id, attachment_id) ==
    LET pending == state.pending_failures
        attempts == IF dedupe_key \in DOMAIN pending
                    THEN pending[dedupe_key].attempts + 1 ELSE 1
        entry == [message_id |-> message_id, attachment_id |-> attachment_id,
                  attempts |-> attempts]
    IN [state EXCEPT !.pending_failures =
            [k \in DOMAIN pending \cup {dedupe_key} |->
                IF k = dedupe_key THEN entry ELSE pending[k]]]

\* Variant: the entry is left in place.
clear_pending_failure_kept(state, dedupe_key) == state

clear_pending_failure(state, dedupe_key) ==
    LET pending == state.pending_failures
    IN [state EXCEPT !.pending_failures =
            [k \in DOMAIN pending \ {dedupe_key} |-> pending[k]]]

\* ------------------------------------------------------------------ ledger
\* ledger.jsonl is a sequence of lines; a line holds the event texts written
\* on it.  A line parses as JSON exactly when it holds one event.
Event(kind, run_id, dedupe_key) ==
    [event |-> kind, run_id |-> run_id, dedupe_key |-> dedupe_key]

\* Variant: the file is opened for writing, not for appending.
append_ledger_event_truncating(file, payload) == << << payload >> >>

append_ledger_event(file, payload) == Append(file, << payload >>)

\* Variant: the ledger is not replayed.
load_completed_keys_not_replayed(file) == {}

\* Variant: only the downloads of runs that reached run_completed count.
load_completed_keys_of_completed_runs(file) ==
    { file[i][1].dedupe_key : i \in
        { j \in 1..Len(file) :
            /\ Len(file[j]) = 1
            /\ file[j][1].event = "downloaded"
            /\ file[j][1].dedupe_key # ""
            /\ \E c \in 1..Len(file) :
                  /\ Len(file[c]) = 1
                  /\ file[c][1].event = "run_completed"
                  /\ file[c][1].run_id = file[j][1].run_id } }

load_completed_keys(file) ==
    { file[i][1].dedupe_key : i \in
        { j \in 1..Len(file) : /\ Len(file[j]) = 1
                               /\ file[j][1].event = "downloaded"
                               /\ file[j][1].dedupe_key # "" } }

\* --------------------------------------------------------------- Graph API
\* The listing the server holds for a request: messages of the folder with
\* receivedDateTime >= received_since, newest first ($orderby ... DESC).
RECURSIVE SortDesc(_)
SortDesc(S) ==
    IF S = {} THEN << >>
    ELSE LET newest == CHOOSE m \in S : \A o \in S : Received(o) <= Received(m)
         IN << newest >> \o SortDesc(S \ {newest})

Matching(folder, received_since) ==
    SortDesc({ m \in folder : received_since = None \/ Received(m) >= received_since[1] })

\* The while loop of _collect_paginated: one request per page while there is
\* a next link, fewer than limit items, and (when given) pages left.  The
\* server answers a page of at most page_len items of what rest holds, with a
\* next link when more remain.
RECURSIVE collect_paginated(_, _, _, _, _, _, _)
collect_paginated(items, rest, has_next, page_count, page_len, limit, max_pages) ==
    IF ~(has_next /\ Len(items) < limit) THEN items
    ELSE IF max_pages # None /\ page_count >= max_pages[1] THEN items
    ELSE LET n == Min(page_len, Len(rest))
             values == SubSeq(rest, 1, n)
             room == limit - Len(items)
             taken == SubSeq(values, 1, Min(room, n))
         IN collect_paginated(items \o taken, SubSeq(rest, n + 1, Len(rest)),
                              n < Len(rest), page_count + 1, page_len, limit, max_pages)

\* list_messages: the limit and page size asked for, and the collected pages.
\* The server serves at most ServerPageMax items a page.
list_messages(folder, top, received_since, max_pages) ==
    LET limit == Max(1, Min(top, 5000))
        page_size == Min(limit, 50)
    IN collect_paginated(<< >>, Matching(folder, received_since), TRUE, 0,
                         Min(page_size, ServerPageMax), limit, max_pages)

\* get_attachment: the record the server holds for (message, attachment), or
\* none (a 404) when the folder no longer holds it.
get_attachment(folder, message_id, attachment_id) ==
    IF message_id \notin { MessageIdOf(m) : m \in folder } THEN None
    ELSE LET atts == Attachments(message_id)
             hit == { i \in 1..Len(atts) : atts[i].id = attachment_id }
         IN IF hit = {} THEN None ELSE Some(atts[CHOOSE i \in hit : TRUE])

\* ------------------------------------------------------------ scan window
\* Variant: the backfill window counted in hours.
ScanWindowBackfillInHours(state, run_started, overlap_hours) ==
    LET cursor_before_dt == parse_graph_datetime(state.cursor_received_utc)
        first_run == ~state.first_run_completed
    IN IF first_run \/ cursor_before_dt = None
       THEN [since |-> iso_utc(run_started - FIRST_RUN_BACKFILL_DAYS * Hour),
             since_source |-> "first_run_backfill_" \o ToString(FIRST_RUN_BACKFILL_DAYS) \o "d"]
       ELSE [since |-> iso_utc(cursor_before_dt[1] - overlap_hours * Hour),
             since_source |-> "cursor_overlap_" \o ToString(overlap_hours) \o "h"]

\* Variant: the overlap is not subtracted from the cursor.
ScanWindowWithoutOverlap(state, run_started, overlap_hours) ==
    LET cursor_before_dt == parse_graph_datetime(state.cursor_received_utc)
        first_run == ~state.first_run_completed
    IN IF first_run \/ cursor_before_dt = None
       THEN [since |-> iso_utc(run_started - FIRST_RUN_BACKFILL_DAYS * Day),
             since_source |-> "first_run_backfill_" \o ToString(FIRST_RUN_BACKFILL_DAYS) \o "d"]
       ELSE [since |-> iso_utc(cursor_before_dt[1]),
             since_source |-> "cursor_overlap_" \o ToString(overlap_hours) \o "h"]

\* Lines 684-695 of run_attachments_download_new.
ScanWindow(state, run_started, overlap_hours) ==
    LET cursor_before_dt == parse_graph_datetime(state.cursor_received_utc)
        first_run == ~state.first_run_completed
    IN IF first_run \/ cursor_before_dt = None
       THEN [since |-> iso_utc(run_started - FIRST_RUN_BACKFILL_DAYS * Day),
             since_source |-> "first_run_backfill_" \o ToString(FIRST_RUN_BACKFILL_DAYS) \o "d"]
       ELSE [since |-> iso_utc(cursor_before_dt[1] - overlap_hours * Hour),
             since_source |-> "cursor_overlap_" \o ToString(overlap_hours) \o "h"]

\* Variant: the newest receive time seen, not compared with the cursor the
\* run started from.
CursorAfterObservedOnly(cursor_before_dt, max_received_dt, run_started) ==
    IF max_received_dt = None THEN run_started ELSE max_received_dt[1]

\* Lines 820-825: the cursor a download-new run commits.
CursorAfter(cursor_before_dt, max_received_dt, run_started) ==
    LET observed == IF max_received_dt = None THEN run_started ELSE max_received_dt[1]
    IN IF cursor_before_dt # None /\ cursor_before_dt[1] > observed
       THEN cursor_before_dt[1] ELSE observed

\* ------------------------------------------------------------------- state
VARIABLES
    clock,       \* the wall clock, in ticks
    mailbox,     \* ids of the messages the folder holds
    streamDir,   \* whether the stream directory exists
    stateFile,   \* state.json: << >> (absent) or << document >>
    tmpFile,     \* state.tmp, the temporary file of save_stream_state
    ledger,      \* ledger.jsonl
    downloads,   \* the download_attachment_bytes calls made for the stream
                 \* since it was created or last reset
    pc,          \* where the running command stands ("idle": none runs)
    run,         \* the running command's local variables
    lastResult,  \* how the last run ended, and the summary it returned
    stateResult, \* what the last `state` command returned
    runs,        \* commands started
    faults,      \* errors raised and processes terminated so far
    dir,         \* a target directory of download_one_attachment: name -> bytes
    saves,       \* the download_one_attachment calls made on dir
    selector,    \* a folder path selector: the folder tree and the path asked
    resolution,  \* what resolve_folder_path_selector answered for selector
    http,        \* one GraphClient._request call: attempts made and how it ended
    paging,      \* one list_messages call against a scripted server
    replay,      \* a ledger file as text lines and what load_completed_keys made of it
    appenders,   \* two processes appending to one ledger file, and the file
    streams,     \* commands with one selector and the stream id each one used
    savers,      \* two save_stream_state calls on one stream directory
    torn,        \* a ledger file whose writers can stop before the newline
    cli          \* one main() call: the error raised in it and what it emitted

streamVars == << clock, mailbox, streamDir, stateFile, tmpFile, ledger, downloads,
                 pc, run, lastResult, stateResult, runs, faults >>

\* The variables of the two stand-alone functions checked on their own
\* (download_one_attachment on a directory, folder path resolution).
toolVars == << dir, saves, selector, resolution, http, paging, replay, appenders,
              streams, savers, torn, cli >>

vars == << streamVars, toolVars >>

\* The per-message result of process_message_attachments (lines 914-925).
NewResult(message_id) ==
    [ message_id |-> message_id, attachments_total |-> 0,
      downloaded_count |-> 0, skipped_count |-> 0, failed_count |-> 0,
      downloaded |-> << >>, skipped |-> << >>, failed |-> << >> ]

NoRun ==
    [ mode |-> "", run_id |-> 0, force_redownload |-> FALSE, top |-> 0,
      overlap_hours |-> 0, max_pages |-> 0, max_messages |-> 0,
      state |-> default_stream_state, completed_keys |-> {},
      run_started |-> 0, cursor_before |-> None, first_run |-> FALSE,
      since |-> 0, since_source |-> "",
      pending_before |-> << >>, pending_todo |-> << >>,
      retried_count |-> 0, retried_success |-> 0, retried_failed |-> 0,
      retry_downloaded_total |-> 0, retry_skipped_total |-> 0,
      retry_failed_total |-> 0,
      messages |-> << >>, mi |-> 0, attachments |-> << >>, ai |-> 0,
      result |-> NewResult(""), message_results |-> << >>,
      downloaded_total |-> 0, skipped_total |-> 0, failed_total |-> 0,
      max_received_dt |-> None ]

\* What a command leaves behind: status "ok" with the summary it returned,
\* "error" with the exception main() reports (at: the step that raised it),
\* or "killed".  folder is the folder content the run listed (not part of the
\* summary; kept to tell an unchanged mailbox).
NoResult ==
    [ status |-> "none", error |-> "", at |-> "", mode |-> "", run_id |-> 0,
      top |-> 0, force_redownload |-> FALSE,
      since |-> 0, since_source |-> "",
      cursor_before |-> None, cursor_after |-> None,
      messages |-> << >>, message_results |-> << >>,
      downloaded_count |-> 0, skipped_count |-> 0, failed_count |-> 0,
      folder |-> {} ]

\* What the last `state status` or `state reset` returned or raised, until
\* another command starts.
NoStateResult ==
    [ action |-> "", confirm_reset |-> FALSE, status |-> "none", error |-> "",
      exists |-> FALSE, pending_failures_count |-> 0, completed_keys_count |-> 0,
      ledger_entries |-> 0, removed |-> FALSE ]

RunGap == Day + 1

RecentArgs ==
    { [top |-> DEFAULT_RECENT_TOP, force_redownload |-> FALSE],
      [top |-> 1, force_redownload |-> TRUE],
      [top |-> 0, force_redownload |-> FALSE] }

NewArgs ==
    { [overlap_hours |-> DEFAULT_OVERLAP_HOURS, max_pages |-> DEFAULT_MAX_PAGES,
       max_messages |-> DEFAULT_MAX_MESSAGES],
      [overlap_hours |-> 0, max_pages |-> DEFAULT_MAX_PAGES, max_messages |-> 1],
      [overlap_hours |-> DEFAULT_OVERLAP_HOURS, max_pages |-> 1,
       max_messages |-> DEFAULT_MAX_MESSAGES],
      [overlap_hours |-> -1, max_pages |-> DEFAULT_MAX_PAGES,
       max_messages |-> DEFAULT_MAX_MESSAGES],
      [overlap_hours |-> DEFAULT_OVERLAP_HOURS, max_pages |-> 0,
       max_messages |-> DEFAULT_MAX_MESSAGES],
      [overlap_hours |-> DEFAULT_OVERLAP_HOURS, max_pages |-> DEFAULT_MAX_PAGES,
       max_messages |-> 0] }

\* The argument checks that open the two commands (lines 520-521, 650-655).
ValidRecentArgs(args) == args.top > 0

\* Variant: --max-pages is not checked.
ValidNewArgs_without_max_pages(args) ==
    args.overlap_hours >= 0 /\ args.max_messages > 0

ValidNewArgs(args) ==
    args.overlap_hours >= 0 /\ args.max_pages > 0 /\ args.max_messages > 0

\* ------------------------------------------------- a target directory
\* Attachment names as the Graph metadata carries them, and the file each
\* becomes: sanitize_filename replaces every character outside
\* [A-Za-z0-9._ -] by "_" (and strips blanks and dots at both ends).
AttachmentNames == {"report.pdf", "a/b.pdf", "a:b.pdf"}

sanitize_filename(name) ==
    CASE name = "a/b.pdf" -> "a_b.pdf"
      [] name = "a:b.pdf" -> "a_b.pdf"
      [] OTHER -> name

SafeNames == { sanitize_filename(name) : name \in AttachmentNames }

\* Path.stem and Path.suffix of the sanitized names.
PathStem(name) ==
    CASE name = "report.pdf" -> "report"
      [] name = "a_b.pdf" -> "a_b"

PathSuffix(name) ==
    CASE name = "report.pdf" -> ".pdf"
      [] name = "a_b.pdf" -> ".pdf"

\* The paths uniquify_path looks at for a name, in the order it looks:
\* index 0 is the path itself, index i the candidate stem_i.suffix.
CandidatePaths ==
    [ name \in SafeNames |->
        [ i \in 0..(CANDIDATE_STOP - 1) |->
            IF i = 0 THEN name
            ELSE PathStem(name) \o "_" \o ToString(i) \o PathSuffix(name) ] ]

\* A directory is a function from the file names it holds to their bytes.
EmptyDir == [ p \in {} |-> "" ]

\* The directory that holds name and its candidates up to index n.
TakenUpTo(name, n) == [ p \in { CandidatePaths[name][i] : i \in 0..n } |-> "old" ]

InitialDirs ==
    { EmptyDir,
      TakenUpTo("report.pdf", 0),
      [ p \in {"report.pdf", "report_2.pdf"} |-> "old" ],
      TakenUpTo("report.pdf", CANDIDATE_STOP - 2),
      TakenUpTo("report.pdf", CANDIDATE_STOP - 1) }

AttachmentBytes == {"d1", "d2"}

\* ------------------------------------------------------ the folder tree
\* The id of the Inbox (get_mail_folder("inbox")) and, per tree, what
\* list_child_folders returns for each folder: records with id and
\* displayName, in the order served.
ROOT_ID == "inbox-id"

Folder(id, displayName) == [ id |-> id, displayName |-> displayName ]

WideChildren ==
    [ i \in 1..(PREVIEW_LIMIT + 1) |->
        Folder("w" \o ToString(i), "f" \o (IF i < 10 THEN "0" ELSE "") \o ToString(i)) ]

FolderIds == {ROOT_ID, "f1", "f2", "f3", "f4", "f5", "f6", "f7"} \cup { WideChildren[i].id : i \in DOMAIN WideChildren }

FolderTrees ==
    [ plain |-> [ id \in FolderIds |->
                    CASE id = ROOT_ID -> << Folder("f1", "Reports"), Folder("f2", "Archive "),
                                            Folder("f3", ""), Folder("", "2024") >>
                      [] id = "f1" -> << Folder("f4", "Q1") >>
                      [] OTHER -> << >> ],
      twins |-> [ id \in FolderIds |->
                    CASE id = ROOT_ID -> << Folder("f1", "Reports"), Folder("f2", "reports"),
                                            Folder("f3", "Archive") >>
                      [] id = "f1" -> << Folder("f4", "Q1") >>
                      [] id = "f3" -> << Folder("f5", "2024"), Folder("f6", "2024"),
                                         Folder("f7", "Q1") >>
                      [] OTHER -> << >> ],
      wide |-> [ id \in FolderIds |->
                    CASE id = ROOT_ID -> WideChildren
                      [] OTHER -> << >> ] ]

TreeNames == {"plain", "twins", "wide"}

\* str.strip and str.casefold on the names in use.
Strip(name) == IF name = "Archive " THEN "Archive" ELSE name

Casefold(name) ==
    CASE name \in {"Reports", "REPORTS"} -> "reports"
      [] name = "Archive" -> "archive"
      [] name = "Archive " -> "archive "
      [] name = "Q1" -> "q1"
      [] name = "Missing" -> "missing"
      [] OTHER -> name

\* The display names in the order sorted() puts them (by code point).
NameOrder ==
    << "2024", "Archive", "Q1", "Reports" >> \o [ i \in DOMAIN WideChildren |-> WideChildren[i].displayName ] \o << "reports" >>

\* The pieces of a raw path between its slashes, and the raw paths asked.
PathPieces == {"", "inbox", "Reports", "REPORTS", "Archive", "2024", "Q1", "Missing"}

RawPaths == UNION { [ 1..n -> PathPieces ] : n \in 0..MaxPathLen }

NoSelector == [ tree |-> "", path |-> << >> ]

\* The stream commands touch neither the directory nor the selector of the
\* stand-alone checks.
FilesIdle == dir = EmptyDir /\ saves = << >>

SelectorIdle == selector = NoSelector /\ resolution = None

HttpIdle == http = None

PagingIdle == paging = None

ReplayIdle == replay = None

AppendersIdle == appenders = None

StreamsIdle == streams = None

SaversIdle == savers = None

TornIdle == torn = None

CliIdle == cli = None

MoreIdle == StreamsIdle /\ SaversIdle /\ TornIdle /\ CliIdle

ToolsIdle ==
    /\ FilesIdle
    /\ SelectorIdle
    /\ HttpIdle
    /\ PagingIdle
    /\ ReplayIdle
    /\ AppendersIdle
    /\ MoreIdle

Init ==
    /\ ToolsIdle
    /\ clock = T0
    /\ mailbox \in InitialFolders
    /\ streamDir = FALSE
    /\ stateFile = << >>
    /\ tmpFile = << >>
    /\ ledger = << >>
    /\ downloads = << >>
    /\ pc = "idle"
    /\ run = NoRun
    /\ lastResult = NoResult
    /\ stateResult = NoStateResult
    /\ runs = 0
    /\ faults = 0

\* ------------------------------------------------------------- environment
\* A message appears in the folder (its receive time may lie before the
\* cursor: delivery is not in receive-time order).
Deliver(m) ==
    /\ pc = "idle"
    /\ m \notin mailbox
    /\ mailbox' = mailbox \cup {m}
    /\ UNCHANGED << clock, streamDir, stateFile, tmpFile, ledger, downloads,
                    pc, run, lastResult, stateResult, runs, faults >>
    /\ UNCHANGED toolVars

\* main(): an exception of a command is reported as a structured error.
Abort(error) ==
    /\ pc' = "idle"
    /\ run' = NoRun
    /\ lastResult' = [NoResult EXCEPT !.status = "error", !.error = error,
                                      !.at = pc, !.mode = run.mode,
                                      !.run_id = run.run_id]

\* The ValueError of an argument check, raised before anything else is done.
Reject(mode) ==
    /\ pc' = "idle"
    /\ run' = NoRun
    /\ lastResult' = [NoResult EXCEPT !.status = "error", !.error = "ValueError",
                                      !.at = "arguments", !.mode = mode]

\* --------------------------------------------- process_message_attachments
AttachmentOutcomes == {"ok", "graph_error", "os_error", "ledger_error"}

\* Variant: the handler catches GraphAPIError alone.
CaughtGraphErrorOnly(outcome) == outcome = "graph_error"

\* Variant: the skip test with the force flag inverted.
ShouldSkipWhenForced(completed_keys, dedupe_key, force_redownload) ==
    force_redownload /\ dedupe_key \in completed_keys

\* The exceptions the handler of line 1030 catches: GraphAPIError, OSError
\* and ValueError.
Caught(outcome) == outcome \in {"graph_error", "os_error", "ledger_error"}

\* Variant: a key the state lists as a pending failure is not skipped.
ShouldSkipUnlessPending(completed_keys, dedupe_key, force_redownload) ==
    /\ ~force_redownload
    /\ dedupe_key \in completed_keys
    /\ dedupe_key \notin DOMAIN run.state.pending_failures

\* The skip test of line 948.
ShouldSkip(completed_keys, dedupe_key, force_redownload) ==
    ~force_redownload /\ dedupe_key \in completed_keys

\* Whether the loop body reaches download_one_attachment (lines 948, 971).
ReachesDownload(completed_keys, message_id, attachment, force_redownload) ==
    /\ ~ShouldSkip(completed_keys, build_dedupe_key(message_id, attachment),
                   force_redownload)
    /\ attachment.id # ""

\* One iteration of the attachment loop (lines 944-1059).  outcome is what
\* download_one_attachment does: "ok"; "graph_error", the byte download
\* raises; "os_error", the bytes arrive and uniquify_path or write_bytes
\* raises; "ledger_error", the file is saved and the append of the downloaded
\* event raises OSError inside the try block, after the counter and the
\* completed set were updated.  Yields the new state, completed set and result, the ledger event
\* appended and the download calls made (fetched: the bytes arrived; saved:
\* download_one_attachment returned; logged: the append of the downloaded
\* event returned).
ProcessOne(state, completed_keys, result, message_id, attachment, force_redownload, run_id, outcome) ==
    LET attachment_id == attachment.id
        dedupe_key == build_dedupe_key(message_id, attachment)
        call(fetched, saved, logged) ==
            [run_id |-> run_id, message_id |-> message_id,
             attachment_id |-> attachment_id, dedupe_key |-> dedupe_key,
             fetched |-> fetched, saved |-> saved, logged |-> logged]
    IN IF ShouldSkip(completed_keys, dedupe_key, force_redownload)
       THEN [ state |-> clear_pending_failure(state, dedupe_key),
              completed_keys |-> completed_keys,
              result |-> [result EXCEPT !.skipped_count = @ + 1,
                                        !.skipped = Append(@, dedupe_key)],
              event |-> Event("skipped_already_downloaded", run_id, dedupe_key),
              calls |-> << >> ]
       ELSE IF attachment_id = ""
       THEN [ state |-> record_pending_failure(state, dedupe_key, message_id, ""),
              completed_keys |-> completed_keys,
              result |-> [result EXCEPT !.failed_count = @ + 1,
                                        !.failed = Append(@, dedupe_key)],
              event |-> Event("failed", run_id, dedupe_key),
              calls |-> << >> ]
       ELSE IF outcome = "ok"
       THEN [ state |-> clear_pending_failure(state, dedupe_key),
              completed_keys |-> completed_keys \cup {dedupe_key},
              result |-> [result EXCEPT !.downloaded_count = @ + 1,
                                        !.downloaded = Append(@, dedupe_key)],
              event |-> Event("downloaded", run_id, dedupe_key),
              calls |-> << call(TRUE, TRUE, TRUE) >> ]
       ELSE IF outcome = "ledger_error"
       THEN [ state |-> record_pending_failure(clear_pending_failure(state, dedupe_key),
                                               dedupe_key, message_id, attachment_id),
              completed_keys |-> completed_keys \cup {dedupe_key},
              result |-> [result EXCEPT !.downloaded_count = @ + 1,
                                        !.downloaded = Append(@, dedupe_key),
                                        !.failed_count = @ + 1,
                                        !.failed = Append(@, dedupe_key)],
              event |-> Event("failed", run_id, dedupe_key),
              calls |-> << call(TRUE, TRUE, FALSE) >> ]
       ELSE [ state |-> record_pending_failure(state, dedupe_key, message_id,
                                               attachment_id),
              completed_keys |-> completed_keys,
              result |-> [result EXCEPT !.failed_count = @ + 1,
                                        !.failed = Append(@, dedupe_key)],
              event |-> Event("failed", run_id, dedupe_key),
              calls |-> << call(outcome = "os_error", FALSE, FALSE) >> ]

\* The body of the message loop after process_message_attachments returned
\* (lines 592-595 and 808-815): totals, and in download-new the newest
\* receive time seen; then the next message, or the end of the loop.
AfterMessage(r, result) ==
    LET message == r.messages[r.mi]
        received_dt == parse_graph_datetime(Some(Received(message)))
        newest == IF r.mode = "new" /\ (r.max_received_dt = None
                                         \/ received_dt[1] > r.max_received_dt[1])
                  THEN received_dt ELSE r.max_received_dt
    IN [r EXCEPT !.message_results = Append(@, result),
                 !.downloaded_total = @ + result.downloaded_count,
                 !.skipped_total = @ + result.skipped_count,
                 !.failed_total = @ + result.failed_count,
                 !.max_received_dt = newest,
                 !.mi = @ + 1,
                 !.attachments = << >>,
                 !.ai = 0,
                 !.result = NewResult("")]

NextPc(r) == IF r.mi <= Len(r.messages) THEN "open" ELSE "commit"

\* Spends one of the errors the environment may raise.
Fault(outcome) ==
    IF outcome = "ok" THEN faults' = faults
    ELSE faults < MaxFaults /\ faults' = faults + 1

\* ----------------------------------------------------------- download-recent
\* run_attachments_download_recent, lines 520-574: check --top, load the
\* state and the completed keys, list the messages, append run_started.
StartRecent(args, outcome) ==
    /\ pc = "idle"
    /\ runs < MaxRuns
    /\ outcome \in {"ok", "graph_error"}
    /\ Fault(outcome)
    /\ runs' = runs + 1
    /\ clock' = clock + RunGap
    /\ stateResult' = NoStateResult
    /\ UNCHANGED << mailbox, stateFile, tmpFile, downloads >>
    /\ IF ~ValidRecentArgs(args)
       THEN outcome = "ok" /\ Reject("recent") /\ UNCHANGED << streamDir, ledger >>
       ELSE IF ~StateFileReadable(stateFile)
       THEN Abort("ValueError") /\ UNCHANGED << streamDir, ledger >>
       ELSE IF outcome = "graph_error"
       THEN Abort("GraphAPIError") /\ UNCHANGED << streamDir, ledger >>
       ELSE LET messages == list_messages(mailbox, args.top, None, None)
                r == [NoRun EXCEPT
                        !.mode = "recent",
                        !.run_id = runs + 1,
                        !.top = args.top,
                        !.force_redownload = args.force_redownload,
                        !.state = load_stream_state(stateFile),
                        !.completed_keys = load_completed_keys(ledger),
                        !.run_started = now_utc(clock),
                        !.messages = messages,
                        !.mi = 1]
            IN /\ run' = r
               /\ pc' = NextPc(r)
               /\ streamDir' = TRUE
               /\ ledger' = append_ledger_event(ledger, Event("run_started", runs + 1, ""))
               /\ UNCHANGED lastResult
    /\ UNCHANGED toolVars

\* -------------------------------------------------------------- download-new
\* Variant: only the entries that can be fetched again are taken.
PendingSnapshotWithIdsOnly(state) ==
    SelectSeq(SortedKeys, LAMBDA k : /\ k \in DOMAIN state.pending_failures
                                     /\ state.pending_failures[k].attachment_id # "")

\* The keys of pending_before = dict(state.get("pending_failures", {}))
\* (line 716), in the order the retry loop goes through them.
PendingSnapshot(state) ==
    SelectSeq(SortedKeys, LAMBDA k : k \in DOMAIN state.pending_failures)

\* run_attachments_download_new, lines 649-722: check the arguments, load
\* the state and the completed keys, compute the scan window, append
\* run_started, snapshot the pending failures.
StartNew(args) ==
    /\ pc = "idle"
    /\ runs < MaxRuns
    /\ runs' = runs + 1
    /\ clock' = clock + RunGap
    /\ stateResult' = NoStateResult
    /\ UNCHANGED << mailbox, stateFile, tmpFile, downloads, faults >>
    /\ IF ~ValidNewArgs(args)
       THEN Reject("new") /\ UNCHANGED << streamDir, ledger >>
       ELSE IF ~StateFileReadable(stateFile)
       THEN Abort("ValueError") /\ UNCHANGED << streamDir, ledger >>
       ELSE LET state == load_stream_state(stateFile)
                run_started == now_utc(clock)
                window == ScanWindow(state, run_started, args.overlap_hours)
                r == [NoRun EXCEPT
                        !.mode = "new",
                        !.run_id = runs + 1,
                        !.overlap_hours = args.overlap_hours,
                        !.max_pages = args.max_pages,
                        !.max_messages = args.max_messages,
                        !.state = state,
                        !.completed_keys = load_completed_keys(ledger),
                        !.run_started = run_started,
                        !.cursor_before = state.cursor_received_utc,
                        !.first_run = ~state.first_run_completed,
                        !.since = window.since,
                        !.since_source = window.since_source,
                        !.pending_before = state.pending_failures,
                        !.pending_todo = PendingSnapshot(state)]
            IN /\ run' = r
               /\ pc' = IF r.pending_todo = << >> THEN "list" ELSE "retry"
               /\ streamDir' = TRUE
               /\ ledger' = append_ledger_event(ledger, Event("run_started", runs + 1, ""))
               /\ UNCHANGED lastResult
    /\ UNCHANGED toolVars

RetryOutcomes == {"ok", "get_error", "mkdir_error", "graph_error", "os_error", "ledger_error"}

\* One iteration of the retry loop (lines 724-779) over the snapshot of the
\* pending failures.  outcome: "get_error", get_attachment raises;
\* "mkdir_error", the message directory cannot be made; the others as in
\* ProcessOne.
RetryPending(outcome) ==
    /\ pc = "retry"
    /\ outcome \in RetryOutcomes
    /\ LET key == Head(run.pending_todo)
           pending == run.pending_before[key]
           message_id == pending.message_id
           attachment_id == pending.attachment_id
           rest == Tail(run.pending_todo)
           metadata == get_attachment(mailbox, message_id, attachment_id)
           after == IF rest = << >> THEN "list" ELSE "retry"
       IN IF message_id = "" \/ attachment_id = ""
          THEN \* continue
               /\ outcome = "ok"
               /\ run' = [run EXCEPT !.pending_todo = rest]
               /\ pc' = after
               /\ UNCHANGED << ledger, downloads, faults >>
          ELSE IF metadata = None \/ outcome \in {"get_error", "mkdir_error"}
          THEN \* except (GraphAPIError, OSError, ValueError)
               /\ outcome \in {"ok", "get_error", "mkdir_error"}
               /\ outcome = "ok" <=> metadata = None
               /\ Fault(outcome)
               /\ run' = [run EXCEPT
                            !.pending_todo = rest,
                            !.retried_count = @ + 1,
                            !.retried_failed = @ + 1,
                            !.retry_failed_total = @ + 1,
                            !.state = record_pending_failure(@, key, message_id,
                                                             attachment_id)]
               /\ pc' = after
               /\ ledger' = append_ledger_event(ledger, Event("failed", run.run_id, key))
               /\ UNCHANGED downloads
          ELSE LET attachment == metadata[1]
                   fetch == ReachesDownload(run.completed_keys, message_id,
                                            attachment, FALSE)
                   p == ProcessOne(run.state, run.completed_keys,
                                   [NewResult(message_id) EXCEPT !.attachments_total = 1],
                                   message_id, attachment, FALSE, run.run_id, outcome)
               IN /\ outcome \in (IF fetch THEN AttachmentOutcomes ELSE {"ok"})
                  /\ Fault(outcome)
                  /\ run' = [run EXCEPT
                               !.pending_todo = rest,
                               !.retried_count = @ + 1,
                               !.state = p.state,
                               !.completed_keys = p.completed_keys,
                               !.retry_downloaded_total = @ + p.result.downloaded_count,
                               !.retry_skipped_total = @ + p.result.skipped_count,
                               !.retry_failed_total = @ + p.result.failed_count,
                               !.retried_failed =
                                   IF p.result.failed_count > 0 THEN @ + 1 ELSE @,
                               !.retried_success =
                                   IF p.result.failed_count > 0 THEN @ ELSE @ + 1]
                  /\ pc' = after
                  /\ ledger' = append_ledger_event(ledger, p.event)
                  /\ downloads' = downloads \o p.calls
    /\ UNCHANGED << clock, mailbox, streamDir, stateFile, tmpFile, lastResult, stateResult, runs >>
    /\ UNCHANGED toolVars

\* client.list_messages of download-new (lines 781-789); a GraphAPIError
\* leaves the command.
ListMessages(outcome) ==
    /\ pc = "list"
    /\ outcome \in {"ok", "graph_error"}
    /\ Fault(outcome)
    /\ IF outcome = "graph_error"
       THEN Abort("GraphAPIError")
       ELSE LET r == [run EXCEPT
                        !.messages = list_messages(mailbox, run.max_messages,
                                                   Some(run.since), Some(run.max_pages)),
                        !.mi = 1]
            IN run' = r /\ pc' = NextPc(r) /\ UNCHANGED lastResult
    /\ UNCHANGED << clock, mailbox, streamDir, stateFile, tmpFile, ledger, downloads, stateResult, runs >>
    /\ UNCHANGED toolVars

\* ------------------------------------------------------- the message loop
\* process_message_attachments up to its attachment loop (lines 910-942):
\* a record without id is reported as one failure and nothing else is done;
\* otherwise list the attachments, make the message directory.  outcome
\* "graph_error": list_attachments raises; "os_error": mkdir raises.  Neither
\* is caught by the message loops of the two commands.
OpenMessage(outcome) ==
    /\ pc = "open"
    /\ outcome \in {"ok", "graph_error", "os_error"}
    /\ Fault(outcome)
    /\ LET message_id == MessageIdOf(run.messages[run.mi])
           attachments == Attachments(message_id)
           result == [NewResult(message_id) EXCEPT
                        !.attachments_total = Len(attachments)]
       IN IF message_id = ""
          THEN /\ outcome = "ok"
               /\ run' = AfterMessage(run, [NewResult("") EXCEPT
                                              !.failed_count = 1,
                                              !.failed = << "missing message id" >>])
               /\ pc' = NextPc(run')
               /\ UNCHANGED lastResult
          ELSE IF outcome = "graph_error" THEN Abort("GraphAPIError")
          ELSE IF attachments = << >>
          THEN /\ outcome = "ok"
               /\ run' = AfterMessage(run, result)
               /\ pc' = NextPc(run')
               /\ UNCHANGED lastResult
          ELSE IF outcome = "os_error" THEN Abort("OSError")
          ELSE /\ run' = [run EXCEPT !.attachments = attachments, !.ai = 1,
                                     !.result = result]
               /\ pc' = "attach"
               /\ UNCHANGED lastResult
    /\ UNCHANGED << clock, mailbox, streamDir, stateFile, tmpFile, ledger, downloads, stateResult, runs >>
    /\ UNCHANGED toolVars

\* One attachment of the current message (lines 944-1059); after the last
\* one the result is returned to the message loop.
ProcessAttachment(outcome) ==
    /\ pc = "attach"
    /\ LET message_id == MessageIdOf(run.messages[run.mi])
           attachment == run.attachments[run.ai]
           fetch == ReachesDownload(run.completed_keys, message_id, attachment,
                                    run.force_redownload)
           p == ProcessOne(run.state, run.completed_keys, run.result, message_id,
                           attachment, run.force_redownload, run.run_id, outcome)
           r == [run EXCEPT !.state = p.state,
                            !.completed_keys = p.completed_keys,
                            !.result = p.result,
                            !.ai = @ + 1]
       IN /\ outcome \in (IF fetch THEN AttachmentOutcomes ELSE {"ok"})
          /\ Fault(outcome)
          /\ IF outcome # "ok" /\ ~Caught(outcome)
             THEN /\ Abort(IF outcome = "graph_error" THEN "GraphAPIError" ELSE "OSError")
                  /\ downloads' = downloads \o p.calls
                  /\ UNCHANGED ledger
             ELSE /\ ledger' = append_ledger_event(ledger, p.event)
                  /\ downloads' = downloads \o p.calls
                  /\ UNCHANGED lastResult
                  /\ IF r.ai <= Len(r.attachments)
                     THEN run' = r /\ pc' = "attach"
                     ELSE run' = AfterMessage(r, r.result) /\ pc' = NextPc(run')
    /\ UNCHANGED << clock, mailbox, streamDir, stateFile, tmpFile, stateResult, runs >>
    /\ UNCHANGED toolVars

\* ------------------------------------------------------------------ commit
\* Variant: download-new commits the cursor and leaves the first-run flag.
FinalStateWithoutFirstRunFlag(r) ==
    IF r.mode = "recent"
    THEN [r.state EXCEPT
            !.downloaded_total = @ + r.downloaded_total,
            !.skipped_total = @ + r.skipped_total,
            !.failed_total = @ + r.failed_total]
    ELSE [r.state EXCEPT
            !.cursor_received_utc =
                Some(iso_utc(CursorAfter(parse_graph_datetime(r.cursor_before),
                                         r.max_received_dt, r.run_started))),
            !.downloaded_total = @ + r.retry_downloaded_total + r.downloaded_total,
            !.skipped_total = @ + r.skipped_total + r.retry_skipped_total,
            !.failed_total = @ + r.retry_failed_total + r.failed_total]

\* Variant: download-recent marks the first run as completed.
FinalStateRecentMarksFirstRun(r) ==
    IF r.mode = "recent"
    THEN [r.state EXCEPT
            !.first_run_completed = TRUE,
            !.downloaded_total = @ + r.downloaded_total,
            !.skipped_total = @ + r.skipped_total,
            !.failed_total = @ + r.failed_total]
    ELSE [r.state EXCEPT
            !.first_run_completed = TRUE,
            !.cursor_received_utc =
                Some(iso_utc(CursorAfter(parse_graph_datetime(r.cursor_before),
                                         r.max_received_dt, r.run_started))),
            !.downloaded_total = @ + r.retry_downloaded_total + r.downloaded_total,
            !.skipped_total = @ + r.retry_skipped_total + r.skipped_total,
            !.failed_total = @ + r.retry_failed_total + r.failed_total]

\* The state a run saves: lines 600-608 (download-recent) and 820-841
\* (download-new).
FinalState(r) ==
    IF r.mode = "recent"
    THEN [r.state EXCEPT
            !.downloaded_total = @ + r.downloaded_total,
            !.skipped_total = @ + r.skipped_total,
            !.failed_total = @ + r.failed_total]
    ELSE [r.state EXCEPT
            !.first_run_completed = TRUE,
            !.cursor_received_utc =
                Some(iso_utc(CursorAfter(parse_graph_datetime(r.cursor_before),
                                         r.max_received_dt, r.run_started))),
            !.downloaded_total = @ + r.retry_downloaded_total + r.downloaded_total,
            !.skipped_total = @ + r.retry_skipped_total + r.skipped_total,
            !.failed_total = @ + r.retry_failed_total + r.failed_total]

\* Variant: the final state is written over state.json itself.
CommitInPlace(outcome) ==
    /\ pc = "commit"
    /\ outcome \in {"ok", "os_error"}
    /\ Fault(outcome)
    /\ LET state == FinalState(run)
       IN IF outcome = "os_error"
          THEN /\ stateFile' = << [state EXCEPT !.complete = FALSE] >>
               /\ Abort("OSError")
          ELSE /\ stateFile' = << state >>
               /\ run' = [run EXCEPT !.state = state]
               /\ pc' = "completed"
               /\ UNCHANGED lastResult
    /\ UNCHANGED << clock, mailbox, streamDir, tmpFile, ledger, downloads, stateResult, runs >>
    /\ UNCHANGED toolVars

\* The end of the message loop up to the first half of save_stream_state
\* (line 1535): the final state is written to state.tmp.  outcome "os_error":
\* write_text raises, leaving a partial state.tmp.
Commit(outcome) ==
    /\ pc = "commit"
    /\ outcome \in {"ok", "os_error"}
    /\ Fault(outcome)
    /\ LET state == FinalState(run)
       IN IF outcome = "os_error"
          THEN /\ tmpFile' = << [state EXCEPT !.complete = FALSE] >>
               /\ Abort("OSError")
          ELSE /\ tmpFile' = << state >>
               /\ run' = [run EXCEPT !.state = state]
               /\ pc' = "replace"
               /\ UNCHANGED lastResult
    /\ UNCHANGED << clock, mailbox, streamDir, stateFile, ledger, downloads, stateResult, runs >>
    /\ UNCHANGED toolVars

\* The second half of save_stream_state (line 1536): state.tmp replaces
\* state.json.
Replace ==
    /\ pc = "replace"
    /\ stateFile' = tmpFile
    /\ tmpFile' = << >>
    /\ pc' = "completed"
    /\ UNCHANGED << clock, mailbox, streamDir, ledger, downloads, run, lastResult,
                    stateResult, runs, faults >>
    /\ UNCHANGED toolVars

\* The summary a run returns (lines 627-646 and 867-896).
Summary(r) ==
    [ NoResult EXCEPT
        !.status = "ok",
        !.mode = r.mode,
        !.run_id = r.run_id,
        !.top = r.top,
        !.force_redownload = r.force_redownload,
        !.since = r.since,
        !.since_source = r.since_source,
        !.cursor_before = r.cursor_before,
        !.cursor_after = r.state.cursor_received_utc,
        !.messages = r.messages,
        !.message_results = r.message_results,
        !.downloaded_count = r.retry_downloaded_total + r.downloaded_total,
        !.skipped_count = r.retry_skipped_total + r.skipped_total,
        !.failed_count = r.retry_failed_total + r.failed_total,
        !.folder = mailbox ]

\* Variant: the cursor the run started from is recorded as cursor_after.
RunCompletedEventWithCursorBeforeTwice(r) ==
    IF r.mode = "new"
    THEN [ event |-> "run_completed", run_id |-> r.run_id, dedupe_key |-> "",
           cursor_before |-> r.cursor_before,
           cursor_after |-> r.cursor_before ]
    ELSE Event("run_completed", r.run_id, "")

\* The run_completed payload (lines 612-625 and 845-865): download-new adds
\* the cursor the run started from and the cursor of the state it saved.
RunCompletedEvent(r) ==
    IF r.mode = "new"
    THEN [ event |-> "run_completed", run_id |-> r.run_id, dedupe_key |-> "",
           cursor_before |-> r.cursor_before,
           cursor_after |-> r.state.cursor_received_utc ]
    ELSE Event("run_completed", r.run_id, "")

\* run_completed is appended and the summary returned (lines 612-646 and
\* 845-896).
RunCompleted ==
    /\ pc = "completed"
    /\ ledger' = append_ledger_event(ledger, RunCompletedEvent(run))
    /\ lastResult' = Summary(run)
    /\ pc' = "idle"
    /\ run' = NoRun
    /\ UNCHANGED << clock, mailbox, streamDir, stateFile, tmpFile, downloads, stateResult, runs, faults >>
    /\ UNCHANGED toolVars

\* ------------------------------------------------------------- termination
\* The process is terminated between two steps of a command.
Kill ==
    /\ pc \notin {"idle"}
    /\ faults < MaxFaults
    /\ faults' = faults + 1
    /\ pc' = "idle"
    /\ run' = NoRun
    /\ lastResult' = [NoResult EXCEPT !.status = "killed", !.mode = run.mode,
                                      !.run_id = run.run_id]
    /\ UNCHANGED << clock, mailbox, streamDir, stateFile, tmpFile, ledger, downloads, stateResult, runs >>
    /\ UNCHANGED toolVars

\* The process is terminated inside write_text of save_stream_state: a
\* prefix of the document is in state.tmp.
KillInSave ==
    /\ pc = "commit"
    /\ faults < MaxFaults
    /\ faults' = faults + 1
    /\ tmpFile' = << [FinalState(run) EXCEPT !.complete = FALSE] >>
    /\ pc' = "idle"
    /\ run' = NoRun
    /\ lastResult' = [NoResult EXCEPT !.status = "killed", !.mode = run.mode,
                                      !.run_id = run.run_id]
    /\ UNCHANGED << clock, mailbox, streamDir, stateFile, ledger, downloads, stateResult, runs >>
    /\ UNCHANGED toolVars

\* -------------------------------------------------------------- state status
\* count_ledger_entries: the lines of ledger.jsonl.
count_ledger_entries(file) == Len(file)

\* What `state status` returns (lines 474-498): existence of either file,
\* pending-failure and completed-key counts, ledger lines.
StatusReport ==
    LET state == load_stream_state(stateFile)
        completed_keys == load_completed_keys(ledger)
    IN [ NoStateResult EXCEPT
           !.action = "status",
           !.status = "ok",
           !.exists = (stateFile # << >> \/ ledger # << >>),
           !.pending_failures_count = Cardinality(DOMAIN state.pending_failures),
           !.completed_keys_count = Cardinality(completed_keys),
           !.ledger_entries = count_ledger_entries(ledger) ]

\* Variant: the state loaded is saved back, which makes the stream directory
\* and writes state.json.
StateStatusSavingState ==
    /\ pc = "idle"
    /\ stateResult.action # "status"
    /\ StateFileReadable(stateFile)
    /\ stateResult' = StatusReport
    /\ streamDir' = TRUE
    /\ stateFile' = << load_stream_state(stateFile) >>
    /\ UNCHANGED << clock, mailbox, tmpFile, ledger, downloads,
                    pc, run, lastResult, runs, faults >>
    /\ UNCHANGED toolVars

\* run_attachment_state with state_action "status": reads state.json and the
\* ledger and returns the report; an unreadable state.json is an error.
StateStatus ==
    /\ pc = "idle"
    /\ stateResult.action # "status"
    /\ stateResult' = IF StateFileReadable(stateFile) THEN StatusReport
                      ELSE [NoStateResult EXCEPT !.action = "status", !.status = "error",
                                                 !.error = "ValueError"]
    /\ UNCHANGED << clock, mailbox, streamDir, stateFile, tmpFile, ledger, downloads,
                    pc, run, lastResult, runs, faults >>
    /\ UNCHANGED toolVars

\* Variant: only state.json is removed.
StateResetKeepingLedger(confirm_reset) ==
    /\ pc = "idle"
    /\ runs < MaxRuns
    /\ confirm_reset
    /\ stateResult' = [NoStateResult EXCEPT !.action = "reset", !.status = "ok",
                                            !.confirm_reset = TRUE,
                                            !.removed = streamDir]
    /\ stateFile' = << >>
    /\ UNCHANGED << clock, mailbox, streamDir, tmpFile, ledger, downloads, pc, run,
                    lastResult, runs, faults >>
    /\ UNCHANGED toolVars

\* Variant: the confirmation flag is not looked at.
StateResetUnconfirmed(confirm_reset) ==
    /\ pc = "idle"
    /\ runs < MaxRuns
    /\ stateResult' = [NoStateResult EXCEPT !.action = "reset", !.status = "ok",
                                            !.confirm_reset = confirm_reset,
                                            !.removed = streamDir]
    /\ streamDir' = FALSE
    /\ stateFile' = << >>
    /\ tmpFile' = << >>
    /\ ledger' = << >>
    /\ downloads' = << >>
    /\ UNCHANGED << clock, mailbox, pc, run, lastResult, runs, faults >>
    /\ UNCHANGED toolVars

\* run_attachment_state with state_action "reset" (lines 500-515): without
\* the confirmation flag a ValueError; with it the stream directory, when it
\* exists, is removed with all it holds.  Explored while a run may follow.
StateReset(confirm_reset) ==
    /\ pc = "idle"
    /\ runs < MaxRuns
    /\ IF ~confirm_reset
       THEN /\ stateResult' = [NoStateResult EXCEPT !.action = "reset", !.status = "error",
                                                    !.error = "ValueError"]
            /\ UNCHANGED << streamDir, stateFile, tmpFile, ledger >>
       ELSE /\ stateResult' = [NoStateResult EXCEPT !.action = "reset", !.status = "ok",
                                                    !.confirm_reset = TRUE,
                                                    !.removed = streamDir]
            /\ streamDir' = FALSE
            /\ stateFile' = << >>
            /\ tmpFile' = << >>
            /\ ledger' = << >>
    /\ downloads' = IF confirm_reset THEN << >> ELSE downloads
    /\ UNCHANGED << clock, mailbox, pc, run, lastResult, runs, faults >>
    /\ UNCHANGED toolVars

Next ==
    \/ \E m \in LateMsgs : Deliver(m)
    \/ \E args \in RecentArgs, outcome \in {"ok", "graph_error"} : StartRecent(args, outcome)
    \/ \E args \in NewArgs : StartNew(args)
    \/ \E outcome \in RetryOutcomes : RetryPending(outcome)
    \/ \E outcome \in {"ok", "graph_error"} : ListMessages(outcome)
    \/ \E outcome \in {"ok", "graph_error", "os_error"} : OpenMessage(outcome)
    \/ \E outcome \in AttachmentOutcomes : ProcessAttachment(outcome)
    \/ \E outcome \in {"ok", "os_error"} : Commit(outcome)
    \/ Replace
    \/ RunCompleted
    \/ Kill
    \/ KillInSave
    \/ StateStatus
    \/ \E confirm_reset \in BOOLEAN : StateReset(confirm_reset)

Spec == Init /\ [][Next]_vars

\* ------------------------------------- a stream directory left by earlier use
\* Two streams earlier runs (numbered -2 and -1) left behind over the folder
\* {m1, m2}.  Run -2, a first download-new, failed on m2:a1, downloaded m2:a2
\* and committed its state.  In the stale stream run -1, a download-new,
\* downloaded m2:a1 in its retry pass and was terminated before it saved the
\* state: state.json still lists m2:a1 as pending.  In the damaged stream
\* state.json was cut short after run -2 by something other than the
\* commands (they replace the file whole).
CommittedByEarlierRun ==
    record_pending_failure(
        [default_stream_state EXCEPT
            !.first_run_completed = TRUE,
            !.cursor_received_utc = Some(iso_utc(Received("m2"))),
            !.downloaded_total = 1,
            !.failed_total = 1],
        "m2:a1", "m2", "a1")

EarlierCall(run_id, attachment_id, done) ==
    [ run_id |-> run_id, message_id |-> "m2", attachment_id |-> attachment_id,
      dedupe_key |-> "m2:" \o attachment_id,
      fetched |-> done, saved |-> done, logged |-> done ]

LedgerOfEarlierRun ==
    << << Event("run_started", -2, "") >>,
       << Event("failed", -2, "m2:a1") >>,
       << Event("downloaded", -2, "m2:a2") >>,
       << [ event |-> "run_completed", run_id |-> -2, dedupe_key |-> "",
            cursor_before |-> None,
            cursor_after |-> CommittedByEarlierRun.cursor_received_utc ] >> >>

StaleStream ==
    [ stateFile |-> << CommittedByEarlierRun >>,
      ledger |-> LedgerOfEarlierRun \o
                 << << Event("run_started", -1, "") >>,
                    << Event("downloaded", -1, "m2:a1") >> >>,
      downloads |-> << EarlierCall(-2, "a1", FALSE), EarlierCall(-2, "a2", TRUE),
                       EarlierCall(-1, "a1", TRUE) >>,
      folders |-> { {"m1", "m2"}, {"m1"} } ]

DamagedStream ==
    [ stateFile |-> << [CommittedByEarlierRun EXCEPT !.complete = FALSE] >>,
      ledger |-> LedgerOfEarlierRun,
      downloads |-> << EarlierCall(-2, "a1", FALSE), EarlierCall(-2, "a2", TRUE) >>,
      folders |-> { {"m1", "m2"} } ]

InitLeftover ==
    /\ ToolsIdle
    /\ clock = T0 + 2 * RunGap
    /\ \E stream \in {StaleStream, DamagedStream} :
          /\ stateFile = stream.stateFile
          /\ ledger = stream.ledger
          /\ downloads = stream.downloads
          /\ mailbox \in stream.folders
    /\ streamDir = TRUE
    /\ tmpFile = << >>
    /\ pc = "idle"
    /\ run = NoRun
    /\ lastResult = NoResult
    /\ stateResult = NoStateResult
    /\ runs = 0
    /\ faults = 0

SpecLeftover == InitLeftover /\ [][Next]_vars

\* ------------------------------------------------ download_one_attachment
\* Variant: the destination is used whether or not it exists.
uniquify_path_unchecked(files, name) == Some(name)

\* uniquify_path (lines 1681-1693): the path when it does not exist, else
\* the first candidate stem_1.suffix .. stem_999.suffix that does not exist,
\* else OSError (None here).
uniquify_path(files, name) ==
    IF name \notin DOMAIN files THEN Some(name)
    ELSE LET free == { i \in 1..(CANDIDATE_STOP - 1) : CandidatePaths[name][i] \notin DOMAIN files }
         IN IF free = {} THEN None
            ELSE Some(CandidatePaths[name][CHOOSE i \in free : \A j \in free : i <= j])

\* Path.write_bytes: creates the file or replaces what it held.
write_bytes(files, path, data) ==
    [ p \in DOMAIN files \cup {path} |-> IF p = path THEN data ELSE files[p] ]

NoSave == [ name |-> "", data |-> "", ok |-> FALSE, saved_path |-> "", error |-> "" ]

\* download_one_attachment (lines 1241-1262) on the directory files:
\* download the bytes (outcome "graph_error": the request fails), sanitize
\* the name, pick the destination, write.  The directory afterwards and
\* what the caller gets.
download_one_attachment(files, name, data, outcome) ==
    IF outcome = "graph_error"
    THEN [ files |-> files,
           result |-> [NoSave EXCEPT !.name = name, !.data = data, !.error = "GraphAPIError"] ]
    ELSE LET safe_name == sanitize_filename(name)
             destination == uniquify_path(files, safe_name)
         IN IF destination = None
            THEN [ files |-> files,
                   result |-> [NoSave EXCEPT !.name = name, !.data = data, !.error = "OSError"] ]
            ELSE [ files |-> write_bytes(files, destination[1], data),
                   result |-> [NoSave EXCEPT !.name = name, !.data = data, !.ok = TRUE,
                                             !.saved_path = destination[1]] ]

\* One attachment is saved into the directory.
Save(name, data, outcome) ==
    /\ Len(saves) < MaxSaves
    /\ LET r == download_one_attachment(dir, name, data, outcome)
       IN /\ dir' = r.files
          /\ saves' = Append(saves, r.result)
    /\ UNCHANGED << streamVars, selector, resolution, http, paging, replay, appenders, streams, savers, torn, cli >>

\* The stream is left alone: no mailbox, no command.
StreamIdle ==
    /\ clock = T0
    /\ mailbox = {}
    /\ streamDir = FALSE
    /\ stateFile = << >>
    /\ tmpFile = << >>
    /\ ledger = << >>
    /\ downloads = << >>
    /\ pc = "idle"
    /\ run = NoRun
    /\ lastResult = NoResult
    /\ stateResult = NoStateResult
    /\ runs = 0
    /\ faults = 0

InitFiles ==
    /\ StreamIdle
    /\ dir \in InitialDirs
    /\ saves = << >>
    /\ SelectorIdle /\ HttpIdle /\ PagingIdle /\ ReplayIdle /\ AppendersIdle /\ MoreIdle

NextFiles ==
    \E name \in AttachmentNames, data \in AttachmentBytes, outcome \in {"ok", "graph_error"} :
        Save(name, data, outcome)

SpecFiles == InitFiles /\ [][NextFiles]_vars

\* ------------------------------------------- resolve_folder_path_selector
\* normalize_folder_path (lines 1375-1387): the non-empty pieces, without a
\* leading "inbox".
normalize_folder_path(raw_path) ==
    LET kept == SelectSeq(raw_path, LAMBDA piece : Strip(piece) # "")
        pieces == [ i \in DOMAIN kept |-> Strip(kept[i]) ]
    IN IF pieces # << >> /\ Casefold(pieces[1]) = "inbox" THEN Tail(pieces) ELSE pieces

\* Variant: the display name is compared as it is written.
MatchesExactCase(children, segment) ==
    SelectSeq(children, LAMBDA child : Strip(child.displayName) = segment)

\* The children whose display name is the segment, case-insensitively
\* (lines 1332-1336).
Matches(children, segment) ==
    SelectSeq(children, LAMBDA child : Casefold(Strip(child.displayName)) = Casefold(segment))

\* sorted(...)[:20] of the non-empty display names (lines 1339-1347).
AvailablePreview(children) ==
    LET names == { Strip(children[i].displayName) : i \in DOMAIN children } \ {""}
        available == SelectSeq(NameOrder, LAMBDA name : name \in names)
    IN SubSeq(available, 1, Min(PREVIEW_LIMIT, Len(available)))

NoResolution ==
    [ status |-> "", resolved_folder_id |-> "", resolved_folder_path |-> << >>,
      error |-> "", segment |-> "", under |-> << >>, ids |-> << >>, available |-> << >>,
      listed |-> << >> ]

\* The loop over the segments (lines 1330-1364) from the folder current_id;
\* listed is the folders list_child_folders was called for so far.
RECURSIVE walk_segments(_, _, _, _, _)
walk_segments(tree, current_id, current_path, segments, listed) ==
    IF segments = << >>
    THEN [NoResolution EXCEPT !.status = "ok", !.resolved_folder_id = current_id,
                              !.resolved_folder_path = current_path, !.listed = listed]
    ELSE LET segment == Head(segments)
             children == tree[current_id]
             matches == Matches(children, segment)
             failed == [NoResolution EXCEPT !.status = "error", !.segment = segment,
                                            !.under = current_path,
                                            !.listed = Append(listed, current_id)]
         IN IF matches = << >>
            THEN [failed EXCEPT !.error = "not_found", !.available = AvailablePreview(children)]
            ELSE IF Len(matches) > 1
            THEN [failed EXCEPT !.error = "ambiguous",
                                !.ids = [ i \in DOMAIN matches |-> matches[i].id ]]
            ELSE IF matches[1].id = ""
            THEN [failed EXCEPT !.error = "no_id"]
            ELSE walk_segments(tree, matches[1].id,
                               Append(current_path, IF matches[1].displayName # ""
                                                    THEN matches[1].displayName ELSE segment),
                               Tail(segments), Append(listed, current_id))

\* resolve_folder_path_selector (lines 1319-1372) against a tree whose
\* Inbox has an id.
resolve_folder_path_selector(tree, raw_path) ==
    walk_segments(tree, ROOT_ID, << "Inbox" >>, normalize_folder_path(raw_path), << >>)

\* The selector is resolved.
Resolve ==
    /\ resolution = None
    /\ selector # NoSelector
    /\ resolution' = Some(resolve_folder_path_selector(FolderTrees[selector.tree], selector.path))
    /\ UNCHANGED << streamVars, dir, saves, selector, http, paging, replay, appenders, streams, savers, torn, cli >>

InitSelector ==
    /\ StreamIdle
    /\ selector \in [ tree : TreeNames, path : RawPaths ]
    /\ resolution = None
    /\ FilesIdle /\ HttpIdle /\ PagingIdle /\ ReplayIdle /\ AppendersIdle /\ MoreIdle

NextSelector == Resolve

SpecSelector == InitSelector /\ [][NextSelector]_vars

\* -------------------------------------------------- GraphClient._request
\* The statuses that are tried again (line 223) and the status codes the
\* server is let to answer.
RETRY_STATUSES == {429, 500, 502, 503, 504}

Statuses == {200, 304, 401, 404, 429, 500, 501, 503}

\* Variant: every status from 400 up is tried again.
Retriable_any_error(status, attempt, max_retries) == status >= 400 /\ attempt < max_retries

\* The test of line 223: the response is dropped and the loop continues.
Retriable(status, attempt, max_retries) == status \in RETRY_STATUSES /\ attempt < max_retries

\* A call of GraphClient._request by a client built with max_retries: at is
\* where the call stands ("token": before auth.get_access_token; "request":
\* about to issue attempt number attempt, counted from 0; "returned" and
\* "raised": over), issued the number of requests.request calls made and
\* responses the statuses they got, in order.
NewRequest(max_retries) ==
    [ max_retries |-> max_retries, at |-> "token", attempt |-> 0, issued |-> 0,
      responses |-> << >>, raised |-> "", status_code |-> None ]

\* Line 207: the access token is obtained; auth.get_access_token may raise.
GetToken(outcome) ==
    /\ http # None
    /\ http.at = "token"
    /\ http' = IF outcome = "auth_error"
               THEN [http EXCEPT !.at = "raised", !.raised = "AuthError"]
               ELSE [http EXCEPT !.at = "request"]
    /\ UNCHANGED << streamVars, dir, saves, selector, resolution, paging, replay, appenders, streams, savers, torn, cli >>

\* One pass of the loop of lines 214-228 in which requests.request raises
\* (connection error, timeout): the exception leaves the call.
AttemptRaises ==
    /\ http # None
    /\ http.at = "request"
    /\ http' = [http EXCEPT !.at = "raised", !.raised = "RequestException", !.issued = @ + 1]
    /\ UNCHANGED << streamVars, dir, saves, selector, resolution, paging, replay, appenders, streams, savers, torn, cli >>

\* One pass of the loop of lines 214-228 that gets a response with the given
\* status and, when the loop is left, lines 230-236.
Attempt(status) ==
    /\ http # None
    /\ http.at = "request"
    /\ http' =
         IF Retriable(status, http.attempt, http.max_retries)
         THEN [http EXCEPT !.attempt = @ + 1, !.issued = @ + 1,
                           !.responses = Append(@, status)]
         ELSE IF status >= 400
         THEN [http EXCEPT !.at = "raised", !.raised = "GraphAPIError",
                           !.status_code = Some(status), !.issued = @ + 1,
                           !.responses = Append(@, status)]
         ELSE [http EXCEPT !.at = "returned", !.status_code = Some(status),
                           !.issued = @ + 1, !.responses = Append(@, status)]
    /\ UNCHANGED << streamVars, dir, saves, selector, resolution, paging, replay, appenders, streams, savers, torn, cli >>

InitHttp ==
    /\ StreamIdle
    /\ http \in { NewRequest(max_retries) : max_retries \in 0..MaxRetriesTried }
    /\ FilesIdle /\ SelectorIdle /\ PagingIdle /\ ReplayIdle /\ AppendersIdle /\ MoreIdle

NextHttp ==
    \/ \E outcome \in {"ok", "auth_error"} : GetToken(outcome)
    \/ \E status \in Statuses : Attempt(status)
    \/ AttemptRaises

SpecHttp == InitHttp /\ [][NextHttp]_vars

\* ------------------------------------- list_messages against any server
\* The caps a download-new run passes (lines 781-789: top = max_messages),
\* and what a server may put on one page: any number of items, whatever
\* $top asked, with or without a next link.
ScanCaps == [ top : {1, 2, 4, 6000}, max_pages : 1..MaxPages ]

PageSizes == 0..3

\* Variant: one page more than the cap is let through.
PagesLeftInclusive(page_count, max_pages) == page_count <= max_pages

\* The test of lines 152-153 of _collect_paginated.
PagesLeft(page_count, max_pages) == page_count < max_pages

\* list_messages lines 45-46 and the start of _collect_paginated (lines
\* 146-149): limit, page size, no item, the first URL.
NewScan(caps) ==
    [ top |-> caps.top, max_pages |-> caps.max_pages,
      limit |-> Max(1, Min(caps.top, 5000)),
      page_size |-> Min(Max(1, Min(caps.top, 5000)), 50),
      items |-> 0, page_count |-> 0, has_next |-> TRUE, at |-> "loop", raised |-> "" ]

\* The loop goes on (lines 151-153).
LoopGoesOn(p) == p.has_next /\ p.items < p.limit /\ PagesLeft(p.page_count, p.max_pages)

\* One pass of the loop (lines 154-163): the page is requested, its values
\* are taken while there is room, the next link is kept.
FetchPage(values, next_link) ==
    /\ paging # None
    /\ paging.at = "loop"
    /\ LoopGoesOn(paging)
    /\ paging' = [paging EXCEPT !.page_count = @ + 1,
                                !.items = Min(paging.limit, @ + values),
                                !.has_next = next_link]
    /\ UNCHANGED << streamVars, dir, saves, selector, resolution, http, replay, appenders, streams, savers, torn, cli >>

\* The request of a page raises GraphAPIError.
FetchPageFails ==
    /\ paging # None
    /\ paging.at = "loop"
    /\ LoopGoesOn(paging)
    /\ paging' = [paging EXCEPT !.page_count = @ + 1, !.at = "raised", !.raised = "GraphAPIError"]
    /\ UNCHANGED << streamVars, dir, saves, selector, resolution, http, replay, appenders, streams, savers, torn, cli >>

\* The loop is left and the items are returned (line 165).
ReturnItems ==
    /\ paging # None
    /\ paging.at = "loop"
    /\ ~LoopGoesOn(paging)
    /\ paging' = [paging EXCEPT !.at = "returned"]
    /\ UNCHANGED << streamVars, dir, saves, selector, resolution, http, replay, appenders, streams, savers, torn, cli >>

InitPaging ==
    /\ StreamIdle
    /\ paging \in { NewScan(caps) : caps \in ScanCaps }
    /\ FilesIdle /\ SelectorIdle /\ HttpIdle /\ ReplayIdle /\ AppendersIdle /\ MoreIdle

NextPaging ==
    \/ \E values \in PageSizes, next_link \in BOOLEAN : FetchPage(values, next_link)
    \/ FetchPageFails
    \/ ReturnItems

SpecPaging == InitPaging /\ [][NextPaging]_vars

\* ------------------------------------------------- reading any ledger.jsonl
\* The texts a line of a ledger file can hold besides complete event
\* objects: a complete JSON text that is not an object, and the head of an
\* event text cut short.
MaxLines == 3

JsonNonObjects == { [json |-> "null"] }

TornTexts == { [torn |-> "{\"dedupe_key\": \"m2:a1\", \"eve"] }

JsonObject(text) == "event" \in DOMAIN text

\* json.loads(raw) returns for a line holding exactly one complete JSON text.
Parses(line) == Len(line) = 1 /\ (JsonObject(line[1]) \/ line[1] \in JsonNonObjects)

LedgerLines ==
    { << >>,
      << Event("downloaded", 1, "m2:a1") >>,
      << Event("downloaded", 1, "") >>,
      << Event("failed", 1, "m2:a2") >>,
      << Event("downloaded", 1, "m3:a1"), Event("run_completed", 1, "") >> }
      \cup { << text >> : text \in JsonNonObjects \cup TornTexts }

RECURSIVE LedgerFiles(_)
LedgerFiles(n) ==
    IF n = 0 THEN { << >> }
    ELSE LET shorter == LedgerFiles(n - 1)
         IN shorter \cup { Append(file, line) : file \in shorter, line \in LedgerLines }

\* The whole call of load_completed_keys on a file: json.loads rejects the
\* lines it cannot parse and they are passed over; event.get on a parsed
\* value that is not an object raises AttributeError, which nothing catches.
load_completed_keys_call(file) ==
    IF \E j \in 1..Len(file) : Parses(file[j]) /\ ~JsonObject(file[j][1])
    THEN [ raised |-> "AttributeError", completed |-> {} ]
    ELSE [ raised |-> "",
           completed |-> load_completed_keys(
               SelectSeq(file, LAMBDA line : Len(line) # 1 \/ JsonObject(line[1]))) ]

ReplayLedger ==
    /\ replay # None
    /\ replay.outcome = None
    /\ replay' = [replay EXCEPT !.outcome = Some(load_completed_keys_call(replay.lines))]
    /\ UNCHANGED << streamVars, dir, saves, selector, resolution, http, paging, appenders, streams, savers, torn, cli >>

InitReplay ==
    /\ StreamIdle
    /\ replay \in { [ lines |-> file, outcome |-> None ] : file \in LedgerFiles(MaxLines) }
    /\ FilesIdle /\ SelectorIdle /\ HttpIdle /\ PagingIdle /\ AppendersIdle /\ MoreIdle

NextReplay == ReplayLedger

SpecReplay == InitReplay /\ [][NextReplay]_vars

\* ------------------------------------- two processes appending to one ledger
\* Each process calls append_ledger_event MaxAppends times on the same
\* ledger.jsonl.  The file is its terminated lines and the text after the
\* last newline.  The handle is a buffered text file opened in append mode:
\* an event text that fits the buffer (io.DEFAULT_BUFFER_SIZE bytes) reaches
\* the file together with its newline in one write when the handle is
\* closed; a longer one is written through by handle.write(json.dumps(...))
\* and its newline reaches the file in a second write at the close.
MaxAppends == 2

Appenders == 1..2

AppendedEvent(p, k) ==
    IF k = 1 THEN Event("run_started", p, "")
    ELSE IF p = 1 THEN Event("downloaded", p, "m2:a1")
    ELSE Event("failed", p, "m2:a2")

NewAppenders ==
    [ lines |-> << >>, tail |-> << >>,
      done |-> [p \in Appenders |-> 0],
      at |-> [p \in Appenders |-> "idle"] ]

FitsBuffer(long) == ~long

\* append_ledger_event of an event that fits the buffer, or the first write
\* of one that does not.
AppendEvent(p, long) ==
    /\ appenders # None
    /\ appenders.at[p] = "idle"
    /\ appenders.done[p] < MaxAppends
    /\ LET text == AppendedEvent(p, appenders.done[p] + 1)
       IN IF FitsBuffer(long)
          THEN appenders' = [appenders EXCEPT
                   !.lines = Append(@, Append(appenders.tail, text)),
                   !.tail = << >>,
                   !.done[p] = @ + 1]
          ELSE appenders' = [appenders EXCEPT
                   !.tail = Append(@, text),
                   !.at[p] = "newline"]
    /\ UNCHANGED << streamVars, dir, saves, selector, resolution, http, paging, replay, streams, savers, torn, cli >>

\* The close of the handle writes the newline left in the buffer.
AppendNewline(p) ==
    /\ appenders # None
    /\ appenders.at[p] = "newline"
    /\ appenders' = [appenders EXCEPT
           !.lines = Append(@, appenders.tail),
           !.tail = << >>,
           !.done[p] = @ + 1,
           !.at[p] = "idle"]
    /\ UNCHANGED << streamVars, dir, saves, selector, resolution, http, paging, replay, streams, savers, torn, cli >>

InitAppenders ==
    /\ StreamIdle
    /\ appenders = NewAppenders
    /\ FilesIdle /\ SelectorIdle /\ HttpIdle /\ PagingIdle /\ ReplayIdle /\ MoreIdle

NextAppenders ==
    \/ \E p \in Appenders, long \in BOOLEAN : AppendEvent(p, long)
    \/ \E p \in Appenders : AppendNewline(p)

SpecAppenders == InitAppenders /\ [][NextAppenders]_vars

\* Every call made is carried on: get_access_token and requests.request
\* return or raise (the request has a timeout).
SpecHttpFair == SpecHttp /\ WF_vars(NextHttp)

\* ------------------------------------------------------------ properties
\* The events the ledger holds, read line by line as a JSON reader would.
LedgerEvents == { ledger[i][1] : i \in { j \in 1..Len(ledger) : Len(ledger[j]) = 1 } }

\* Dedupe keys with a downloaded event, and those with one from another run
\* than rid.
DownloadedKeys == { e.dedupe_key : e \in { x \in LedgerEvents : x.event = "downloaded" } }

DownloadedOutside(rid) ==
    { e.dedupe_key : e \in { x \in LedgerEvents : x.event = "downloaded" /\ x.run_id # rid } }

\* The run is at or past its start and has not yet replaced state.json.
BeforeReplace == pc \in {"retry", "list", "open", "attach", "commit", "replace"}

\* The dedupe keys of the attachments of m that carry an id.
FetchableKeys(m) ==
    { build_dedupe_key(MessageIdOf(m), Attachments(m)[i]) :
        i \in { j \in 1..Len(Attachments(m)) : Attachments(m)[j].id # "" } }

\* C1: the cursor stored in state.json never decreases from one state
\* document to the next, whatever the listings returned.
CursorNeverMovesBack ==
    [][ (stateFile # << >> /\ stateFile' # << >>
         /\ stateFile[1].cursor_received_utc # None)
        => /\ stateFile'[1].cursor_received_utc # None
           /\ stateFile'[1].cursor_received_utc[1] >= stateFile[1].cursor_received_utc[1] ]_vars

\* A download-new run that saw only messages older than the cursor it
\* started from has committed.
CursorOlderListingSeen ==
    /\ lastResult.status = "ok"
    /\ lastResult.mode = "new"
    /\ lastResult.cursor_before # None
    /\ lastResult.messages # << >>
    /\ \A i \in 1..Len(lastResult.messages) :
          Received(lastResult.messages[i]) < lastResult.cursor_before[1]
    /\ lastResult.cursor_after = lastResult.cursor_before

\* C2: after a download-new run has committed, every attachment with an id
\* of a message inside the run's window is downloaded, or queued in
\* pending_failures, or still inside the window of the next run under the
\* same overlap; otherwise no later scan reaches it.
AtLeastOnceDelivery ==
    (pc = "completed" /\ run.mode = "new")
    => \A m \in mailbox :
         Received(m) >= run.since
         => \A k \in FetchableKeys(m) :
              \/ k \in DownloadedKeys
              \/ k \in DOMAIN stateFile[1].pending_failures
              \/ Received(m) >= stateFile[1].cursor_received_utc[1]
                                  - run.overlap_hours * Hour

\* The second of two download-recent runs in a row (no reset in between),
\* over the folder the first one listed and with the same top, has finished
\* its message loop and saved its state.
SecondRecentRun ==
    /\ pc = "completed"
    /\ run.mode = "recent"
    /\ ~run.force_redownload
    /\ lastResult.status = "ok"
    /\ lastResult.mode = "recent"
    /\ lastResult.run_id + 1 = run.run_id
    /\ lastResult.top = run.top
    /\ lastResult.folder = mailbox
    /\ Event("run_completed", lastResult.run_id, "") \in LedgerEvents

NothingNewDownloaded ==
    /\ run.downloaded_total = 0
    /\ \A i \in 1..Len(run.message_results) :
          run.message_results[i].skipped_count = run.message_results[i].attachments_total
    /\ DownloadedKeys = DownloadedOutside(run.run_id)

SavedBy(rid, k) ==
    { i \in 1..Len(downloads) :
        /\ downloads[i].run_id = rid
        /\ downloads[i].dedupe_key = k
        /\ downloads[i].saved
        /\ downloads[i].logged }

CurrentKey == build_dedupe_key(MessageIdOf(run.messages[run.mi]), run.attachments[run.ai])

\* C5: a run without force-redownload never issues a download call for a
\* key that has a downloaded event in the ledger, whoever appended it and
\* however that run ended; meeting such an attachment it appends
\* skipped_already_downloaded and makes no call.
CrashSafeResume ==
    /\ [][ Len(downloads') > Len(downloads)
           => \/ run.force_redownload
              \/ downloads'[Len(downloads')].dedupe_key \notin DownloadedKeys ]_vars
    /\ [][ (pc = "attach" /\ pc' # "idle" /\ ~run.force_redownload
            /\ CurrentKey \in DownloadedKeys)
           => /\ downloads' = downloads
              /\ ledger' = Append(ledger,
                    << Event("skipped_already_downloaded", run.run_id, CurrentKey) >>) ]_vars

\* A run was terminated after it appended a downloaded event, and the next
\* run has skipped that attachment.
ResumeAfterKillSeen ==
    /\ lastResult.status = "killed"
    /\ pc # "idle"
    /\ \E k \in DownloadedKeys :
          /\ Event("downloaded", lastResult.run_id, k) \in LedgerEvents
          /\ Event("skipped_already_downloaded", run.run_id, k) \in LedgerEvents

\* C6: state.json is absent or a whole document at every instant, and it
\* changes only by the replace that ends save_stream_state, to the whole
\* document the run saves (or by a confirmed reset, which removes it); a
\* command that ends earlier leaves it as it was.
StateFileAtomic ==
    /\ [](stateFile = << >> \/ stateFile[1].complete)
    /\ [][ stateFile' # stateFile
           => \/ /\ pc = "replace"
                 /\ pc' = "completed"
                 /\ run.state.complete
                 /\ stateFile' = << run.state >>
              \/ /\ pc = "idle"
                 /\ stateResult'.action = "reset"
                 /\ stateResult'.status = "ok"
                 /\ stateFile' = << >> ]_vars

\* A process was terminated inside the write of state.tmp while state.json
\* held the document of an earlier run.
KilledInSaveSeen ==
    /\ pc = "idle"
    /\ lastResult.status = "killed"
    /\ tmpFile # << >>
    /\ ~tmpFile[1].complete
    /\ stateFile # << >>
    /\ stateFile[1].downloaded_total # tmpFile[1].downloaded_total

\* The step taken terminated the process.
KilledStep == lastResult' # lastResult /\ lastResult'.status = "killed"

\* C7: handling one attachment never leaves process_message_attachments by
\* an exception: the next attachment of the message is handled next, and
\* after the last one the summary returned accounts for every attachment.
AttachmentFailureIsolated ==
    [][ (pc = "attach" /\ ~KilledStep)
        => /\ lastResult' = lastResult
           /\ IF run.ai < Len(run.attachments)
              THEN /\ pc' = "attach"
                   /\ run'.ai = run.ai + 1
                   /\ run'.attachments = run.attachments
              ELSE /\ pc' \in {"open", "commit"}
                   /\ LET res == run'.message_results[Len(run'.message_results)]
                      IN /\ Len(run'.message_results) = Len(run.message_results) + 1
                         /\ res.message_id = MessageIdOf(run.messages[run.mi])
                         /\ res.attachments_total = Len(run.attachments)
                         /\ res.downloaded_count + res.skipped_count + res.failed_count
                              >= res.attachments_total ]_vars

\* The first attachment of a message failed to download and the second one
\* was downloaded after it.
SiblingAfterFailureSeen ==
    \E i \in 1..Len(run.message_results) :
        /\ run.message_results[i].failed = << "m2:a1" >>
        /\ run.message_results[i].downloaded = << "m2:a2" >>
        /\ \E j \in 1..Len(downloads) :
              /\ downloads[j].run_id = run.run_id
              /\ downloads[j].dedupe_key = "m2:a1"
              /\ ~downloads[j].saved

\* C8: no error raised while one scanned message is handled (listing its
\* attachments, making its directory, downloading, writing) ends the command.
RunLevelIsolation ==
    ~(lastResult.status = "error" /\ lastResult.at \in {"open", "attach"})

\* The state a download-new run loaded, as state.json still holds it.
StoredState == load_stream_state(stateFile)

\* C9: a download-new run on a stream whose state is absent, or has
\* first_run_completed false, or has no cursor, scans from its start time
\* minus exactly 15 days and reports first_run_backfill_15d.
FirstRunBackfill ==
    (BeforeReplace /\ run.mode = "new"
     /\ (~StoredState.first_run_completed \/ StoredState.cursor_received_utc = None))
    => /\ run.since = run.run_started - 15 * 24 * 3600 * Res
       /\ run.since_source = "first_run_backfill_15d"

\* A download-new run started on a stream whose state.json exists (written
\* by download-recent) without a completed first run.
FirstRunOnExistingStateSeen ==
    /\ pc = "list"
    /\ run.mode = "new"
    /\ stateFile # << >>
    /\ ~stateFile[1].first_run_completed
    /\ run.run_started > T0

\* C10: a download-new run on a stream whose state holds cursor C scans from
\* C minus overlap_hours hours.
OverlapWindow ==
    (BeforeReplace /\ run.mode = "new" /\ StoredState.cursor_received_utc # None)
    => run.since = StoredState.cursor_received_utc[1] - run.overlap_hours * 3600 * Res

OverlapWindowSeen ==
    /\ pc = "list"
    /\ run.mode = "new"
    /\ StoredState.cursor_received_utc # None
    /\ run.overlap_hours > 0
    /\ run.since < StoredState.cursor_received_utc[1]

\* The last state command was a confirmed reset that returned.
ResetDone == stateResult.action = "reset" /\ stateResult.status = "ok"

\* C11: after a confirmed reset state.json and ledger.jsonl are gone; a
\* state status that follows reports exists = false, no completed key and no
\* pending failure; a download-new run that follows scans from its start
\* minus 15 days, as a first run, with an empty completed-key set.
ResetIrreversible ==
    /\ [](ResetDone => (stateFile = << >> /\ ledger = << >> /\ ~streamDir))
    /\ [][ (ResetDone /\ stateResult'.action = "status")
           => /\ stateResult'.status = "ok"
              /\ ~stateResult'.exists
              /\ stateResult'.completed_keys_count = 0
              /\ stateResult'.pending_failures_count = 0 ]_vars
    /\ [][ (ResetDone /\ pc' # "idle" /\ run'.mode = "new")
           => /\ run'.first_run
              /\ run'.since = run'.run_started - 15 * 24 * 3600 * Res
              /\ run'.since_source = "first_run_backfill_15d"
              /\ run'.completed_keys = {}
              /\ run'.pending_todo = << >> ]_vars

\* A download-new run completed with downloads, the stream was reset, and
\* the download-new run started next is a first run again.
FirstRunAfterResetSeen ==
    /\ lastResult.status = "ok"
    /\ lastResult.mode = "new"
    /\ lastResult.downloaded_count > 0
    /\ pc = "list"
    /\ run.mode = "new"
    /\ run.run_id = lastResult.run_id + 1
    /\ run.first_run
    /\ run.completed_keys = {}

\* A state reset command ended in the step taken.
ResetStep == stateResult' # stateResult /\ stateResult'.action = "reset"

\* C12: a state reset without the confirmation flag fails with an error and
\* leaves the stream directory, state.json and ledger.jsonl as they were;
\* the stream directory is removed only by a reset that carries the flag.
ResetNeedsConfirmation ==
    /\ [][ (ResetStep /\ ~stateResult'.confirm_reset)
           => /\ stateResult'.status = "error"
              /\ stateResult'.error = "ValueError"
              /\ UNCHANGED << streamDir, stateFile, tmpFile, ledger >> ]_vars
    /\ [][ (streamDir /\ ~streamDir')
           => /\ ResetStep
              /\ stateResult'.confirm_reset ]_vars

\* An unconfirmed reset was refused on a stream that holds a state and a
\* ledger.
ResetRefusedSeen ==
    /\ stateResult.action = "reset"
    /\ stateResult.status = "error"
    /\ streamDir
    /\ stateFile # << >>
    /\ ledger # << >>

\* s is a prefix of t.
IsPrefix(s, t) == Len(s) <= Len(t) /\ SubSeq(t, 1, Len(s)) = s

\* C13: every step other than a confirmed reset leaves the lines the ledger
\* held as they were and in place, adding lines at the end at most.
LedgerAppendOnly ==
    [][ \/ IsPrefix(ledger, ledger')
        \/ (ResetStep /\ stateResult'.confirm_reset /\ stateResult'.status = "ok") ]_vars

\* A run that ended with an error left its lines in the ledger, and a later
\* run has appended after them.
AppendedAfterAbortedRunSeen ==
    /\ lastResult.status = "error"
    /\ lastResult.at \in {"open", "attach", "commit"}
    /\ pc = "completed"
    /\ Event("run_started", lastResult.run_id, "") \in LedgerEvents
    /\ Event("run_started", run.run_id, "") \in LedgerEvents
    /\ run.run_id > lastResult.run_id

\* C14: a state status leaves the stream directory, state.json, state.tmp
\* and ledger.jsonl as they were, whether the stream exists or not.
StatusMutatesNothing ==
    [][ (stateResult' # stateResult /\ stateResult'.action = "status")
        => UNCHANGED << streamDir, stateFile, tmpFile, ledger >> ]_vars

\* A status was reported for a stream that does not exist, and none was
\* made.
StatusOfAbsentStreamSeen ==
    /\ stateResult.action = "status"
    /\ stateResult.status = "ok"
    /\ ~stateResult.exists
    /\ ~streamDir
    /\ stateFile = << >>
    /\ ledger = << >>

\* The index of the first path of CandidatePaths[name] that files lacks;
\* CANDIDATE_STOP when it holds them all.
FirstFreeIndex(files, name) ==
    LET free == { i \in 0..(CANDIDATE_STOP - 1) : CandidatePaths[name][i] \notin DOMAIN files }
    IN IF free = {} THEN CANDIDATE_STOP ELSE CHOOSE i \in free : \A j \in free : i <= j

\* C15: a successful download_one_attachment writes the first of name.ext,
\* name_1.ext, .. name_999.ext that did not exist just before the write and
\* leaves every file the directory held as it was; when all of them exist
\* the save fails with OSError and writes nothing, as does a save whose
\* download fails.  Hence the successful saves of a directory have pairwise
\* distinct paths and each file holds the bytes of its own save.
NoOverwrite ==
    /\ [][saves' # saves =>
            LET s == saves'[Len(saves')]
                k == FirstFreeIndex(dir, sanitize_filename(s.name))
            IN /\ s.ok =>
                    /\ s.saved_path \notin DOMAIN dir
                    /\ k < CANDIDATE_STOP
                    /\ s.saved_path = CandidatePaths[sanitize_filename(s.name)][k]
                    /\ DOMAIN dir' = DOMAIN dir \cup {s.saved_path}
                    /\ dir'[s.saved_path] = s.data
                    /\ \A p \in DOMAIN dir : dir'[p] = dir[p]
               /\ ~s.ok => dir' = dir
               /\ s.error = "OSError" <=> k = CANDIDATE_STOP /\ s.error # "GraphAPIError"
               /\ s.ok <=> s.error = ""]_vars
    /\ [](\A i \in 1..Len(saves) : saves[i].ok =>
            /\ saves[i].saved_path \in DOMAIN dir
            /\ dir[saves[i].saved_path] = saves[i].data
            /\ \A j \in 1..Len(saves) :
                 saves[j].ok /\ j # i => saves[j].saved_path # saves[i].saved_path)

\* A save took the last candidate, report_999.pdf, and the next save of the
\* same name was refused.
SaveRefusedSeen ==
    \E i \in 1..Len(saves) :
        /\ saves[i].error = "OSError"
        /\ \E j \in 1..(i - 1) : saves[j].ok /\ saves[j].saved_path = "report_999.pdf" /\ saves[j].data = "d2"
        /\ dir["report_999.pdf"] = "d2"
        /\ dir["report.pdf"] = "old"

\* The positions, among the children served for folder id, of those whose
\* display name equals the segment up to case.
CaseMatches(tree, id, segment) ==
    { i \in DOMAIN tree[id] : Casefold(Strip(tree[id][i].displayName)) = Casefold(segment) }

\* The position of a name in NameOrder.
NameRank(name) == CHOOSE i \in DOMAIN NameOrder : NameOrder[i] = name

\* C16: the resolution walks the segments from the Inbox, listing one folder
\* per segment.  Each segment it got past had exactly one child matching
\* case-insensitively, and that child is where it went on; it answers a
\* folder only when every segment was passed so.  It stops with an error at
\* the first segment with two or more matches (the error lists the ids of
\* all of them), with none (the error names the children: their non-empty
\* display names, sorted, at most PREVIEW_LIMIT of them), or whose only
\* match has no id.
FolderPathResolution ==
    resolution # None =>
        LET r == resolution[1]
            tree == FolderTrees[selector.tree]
            segments == normalize_folder_path(selector.path)
            n == Len(r.listed)
            passed == IF r.status = "ok" THEN n ELSE n - 1
            target(i) == IF i < n THEN r.listed[i + 1] ELSE r.resolved_folder_id
        IN /\ r.status \in {"ok", "error"}
           /\ n <= Len(segments)
           /\ n >= 1 => r.listed[1] = ROOT_ID
           /\ \A i \in 1..passed :
                \E k \in DOMAIN tree[r.listed[i]] :
                    /\ CaseMatches(tree, r.listed[i], segments[i]) = {k}
                    /\ tree[r.listed[i]][k].id = target(i)
                    /\ target(i) # ""
           /\ r.status = "ok" =>
                /\ n = Len(segments)
                /\ n = 0 => r.resolved_folder_id = ROOT_ID
           /\ r.status = "error" =>
                /\ n >= 1
                /\ r.segment = segments[n]
                /\ LET m == CaseMatches(tree, r.listed[n], segments[n])
                       names == { Strip(tree[r.listed[n]][i].displayName) : i \in DOMAIN tree[r.listed[n]] } \ {""}
                       named == { r.available[i] : i \in DOMAIN r.available }
                   IN /\ r.error = "ambiguous" <=> Cardinality(m) >= 2
                      /\ r.error = "not_found" <=> m = {}
                      /\ r.error = "no_id" <=> \E k \in m : m = {k} /\ tree[r.listed[n]][k].id = ""
                      /\ r.error = "ambiguous" =>
                            /\ Len(r.ids) = Cardinality(m)
                            /\ { r.ids[i] : i \in DOMAIN r.ids } = { tree[r.listed[n]][i].id : i \in m }
                      /\ r.error = "not_found" =>
                            /\ named \subseteq names
                            /\ Len(r.available) = Min(PREVIEW_LIMIT, Cardinality(names))
                            /\ \A i, j \in DOMAIN r.available :
                                 i < j => NameRank(r.available[i]) < NameRank(r.available[j])
                            /\ \A a \in named, b \in names \ named : NameRank(a) < NameRank(b)

\* Under /Inbox/Archive, found by the segment "Archive", the segment "2024"
\* matched the folders f5 and f6 and the resolution failed listing both.
AmbiguousSegmentSeen ==
    /\ resolution # None
    /\ selector.tree = "twins"
    /\ resolution[1].error = "ambiguous"
    /\ resolution[1].under = << "Inbox", "Archive" >>
    /\ resolution[1].segment = "2024"
    /\ resolution[1].ids = << "f5", "f6" >>

\* The download calls whose downloaded event is in the ledger.
LoggedDownloads ==
    { downloads[i] : i \in { j \in DOMAIN downloads :
          /\ downloads[j].logged
          /\ Event("downloaded", downloads[j].run_id, downloads[j].dedupe_key) \in LedgerEvents } }

\* C17: for a message id m and an attachment with id a, build_dedupe_key is
\* "m:a" whatever the name and size of the attachment; the key of every
\* downloaded event in the ledger is that key, load_completed_keys returns
\* it, and when the processor is at an attachment with the same (m, a) the
\* key it computes is in its completed set.
DedupeKeyRoundTrip ==
    /\ \A m \in {"m1", "m2", "m3"}, a \in {"a1", "a2"}, name \in {"", "scan.pdf", "report.pdf"}, size \in {0, 10, 20} :
          build_dedupe_key(m, [id |-> a, name |-> name, size |-> size]) = m \o ":" \o a
    /\ \A c \in LoggedDownloads :
          /\ c.dedupe_key = c.message_id \o ":" \o c.attachment_id
          /\ c.dedupe_key \in load_completed_keys(ledger)
          /\ ( /\ pc = "attach"
               /\ MessageIdOf(run.messages[run.mi]) = c.message_id
               /\ run.attachments[run.ai].id = c.attachment_id )
             => /\ CurrentKey = c.dedupe_key
                /\ CurrentKey \in run.completed_keys

\* A later run is at the attachment a1 of m2, which an earlier run
\* downloaded, and is about to skip it.
DownloadedAttachmentMetAgainSeen ==
    /\ pc = "attach"
    /\ ~run.force_redownload
    /\ CurrentKey = "m2:a1"
    /\ \E c \in LoggedDownloads : c.dedupe_key = "m2:a1" /\ c.run_id < run.run_id
    /\ CurrentKey \in run.completed_keys

\* The newest receive time among the messages a run scanned.
MaxObserved(messages) ==
    LET seen == { Received(messages[i]) : i \in DOMAIN messages }
    IN CHOOSE t \in seen : \A u \in seen : u <= t

\* C18: the cursor a completed download-new run committed is the later of
\* the cursor it started from and the newest receive time it scanned
\* (written to the second, as every timestamp is); a run that scanned no
\* message committed the cursor it started from.
CursorIsMaxOfPreviousAndObserved ==
    (lastResult.status = "ok" /\ lastResult.mode = "new") =>
        IF lastResult.messages = << >>
        THEN lastResult.cursor_after = lastResult.cursor_before
        ELSE lastResult.cursor_after =
                Some(iso_utc(IF lastResult.cursor_before = None
                             THEN MaxObserved(lastResult.messages)
                             ELSE Max(lastResult.cursor_before[1],
                                      MaxObserved(lastResult.messages))))

\* The failures a run has counted so far: those of the retry loop, of the
\* messages finished and of the message in hand.
FailuresCounted(at, r) ==
    r.retry_failed_total + r.failed_total + (IF at = "attach" THEN r.result.failed_count ELSE 0)

\* C19: whenever a run counts a failure, the same step appends one failed
\* event with the run's id to the ledger and leaves a pending_failures entry
\* for its dedupe key, new or with one more attempt; this holds for the
\* failure of a message record without id as well.
EveryCountedFailureRecorded ==
    [][ ( /\ run.run_id # 0
          /\ run'.run_id = run.run_id
          /\ FailuresCounted(pc', run') > FailuresCounted(pc, run) )
        => /\ FailuresCounted(pc', run') = FailuresCounted(pc, run) + 1
           /\ Len(ledger') = Len(ledger) + 1
           /\ SubSeq(ledger', 1, Len(ledger)) = ledger
           /\ Len(ledger'[Len(ledger')]) = 1
           /\ LET e == ledger'[Len(ledger')][1]
                  before == run.state.pending_failures
                  after == run'.state.pending_failures
              IN /\ e.event = "failed"
                 /\ e.run_id = run.run_id
                 /\ e.dedupe_key \in DOMAIN after
                 /\ \/ e.dedupe_key \notin DOMAIN before
                    \/ after[e.dedupe_key].attempts = before[e.dedupe_key].attempts + 1
                    \/ after[e.dedupe_key].attempts = 1 ]_vars

\* The downloads a run has counted so far.
DownloadsCounted(at, r) ==
    r.retry_downloaded_total + r.downloaded_total
        + (IF at = "attach" THEN r.result.downloaded_count ELSE 0)

\* C20: when download_one_attachment saved the file and the append of the
\* downloaded event failed, the step neither counts the attachment as
\* downloaded nor adds its key to the run's completed set.
DownloadedOnlyAfterLedgerAppend ==
    [][ ( /\ Len(downloads') = Len(downloads) + 1
          /\ downloads'[Len(downloads')].saved
          /\ ~downloads'[Len(downloads')].logged )
        => /\ DownloadsCounted(pc', run') = DownloadsCounted(pc, run)
           /\ downloads'[Len(downloads')].dedupe_key \in run'.completed_keys
                => downloads'[Len(downloads')].dedupe_key \in run.completed_keys ]_vars

\* The call is over.
RequestOver == http.at \in {"returned", "raised"}

\* The status the last attempt got.
LastStatus == http.responses[Len(http.responses)]

\* C28: a _request call issues at most max_retries + 1 attempts (3 with the
\* default client); every attempt but the last got 429 or a 5xx status and
\* was made while budget remained; a status of 400 or more that is not
\* tried again ends the call with GraphAPIError carrying it, a status below
\* 400 ends it with the response, an exception of the HTTP library or of the
\* token provider ends it as it is; and the call does end.
HttpRetryBounded ==
    /\ [](/\ http.issued <= http.max_retries + 1
          /\ http.max_retries = DEFAULT_MAX_RETRIES => http.issued <= 3
          /\ http.at = "request" => http.issued = http.attempt /\ http.attempt <= http.max_retries
          /\ Len(http.responses) \in {http.issued, http.issued - 1}
          /\ \A i \in 1..Len(http.responses) :
                i < http.issued \/ http.at = "request"
                   => /\ http.responses[i] = 429 \/ http.responses[i] \in 500..599
                      /\ i <= http.max_retries
          /\ http.at = "returned" =>
                /\ Len(http.responses) = http.issued
                /\ http.issued >= 1
                /\ LastStatus < 400
                /\ http.status_code = Some(LastStatus)
          /\ http.at = "raised" =>
                \/ http.raised = "AuthError" /\ http.issued = 0
                \/ http.raised = "RequestException" /\ Len(http.responses) = http.issued - 1
                \/ /\ http.raised = "GraphAPIError"
                   /\ Len(http.responses) = http.issued
                   /\ http.issued >= 1
                   /\ LastStatus >= 400
                   /\ http.status_code = Some(LastStatus)
                   /\ \/ LastStatus \notin RETRY_STATUSES
                      \/ http.issued = http.max_retries + 1
          /\ \A i \in 1..Len(http.responses) :
                http.responses[i] >= 400 /\ http.responses[i] \notin {429} \cup (500..599)
                   => i = http.issued /\ http.raised = "GraphAPIError")
    /\ <>RequestOver

\* The default client got 503, then 429, then 503 again and gave up with
\* GraphAPIError 503 after its third attempt.
RetryBudgetSpentSeen ==
    /\ http # None
    /\ http.max_retries = DEFAULT_MAX_RETRIES
    /\ http.responses = << 503, 429, 503 >>
    /\ http.at = "raised"
    /\ http.raised = "GraphAPIError"
    /\ http.status_code = Some(503)

\* C28 as stated: a call that is over has returned a response with a status
\* below 400 or raised GraphAPIError carrying the last status.
RequestEndsWithResponseOrGraphAPIError ==
    RequestOver =>
        \/ http.at = "returned" /\ http.status_code[1] < 400
        \/ /\ http.raised = "GraphAPIError"
           /\ http.responses # << >>
           /\ http.status_code = Some(LastStatus)

\* C29: whatever the server puts on its pages, list_messages called with
\* top = max_messages and max_pages holds at most max_messages items and has
\* requested at most max_pages pages; a page is requested only while fewer
\* than the item cap are held, pages are left and the last page had a next
\* link, and the call returns only once one of the three fails.
ScanBoundedByBothCaps ==
    /\ [](/\ paging.items <= paging.top
          /\ paging.page_count <= paging.max_pages
          /\ paging.at = "returned" =>
                \/ paging.items >= Min(paging.top, 5000)
                \/ paging.page_count = paging.max_pages
                \/ ~paging.has_next)
    /\ [][paging'.page_count # paging.page_count =>
            /\ paging'.page_count = paging.page_count + 1
            /\ paging.items < Min(paging.top, 5000)
            /\ paging.page_count < paging.max_pages
            /\ paging.has_next]_vars

\* With max_messages = 2 and max_pages = 3, the first page brought three
\* items and a next link: two were kept and the call returned after one
\* request.
ItemCapReachedSeen ==
    /\ paging # None
    /\ paging.top = 2
    /\ paging.max_pages = 3
    /\ paging.at = "returned"
    /\ paging.items = 2
    /\ paging.page_count = 1
    /\ paging.has_next

\* The dedupe keys a file's well-formed `downloaded` events carry.
WellFormedDownloadedKeys(file) ==
    { file[j][1].dedupe_key : j \in
        { i \in 1..Len(file) : /\ Len(file[i]) = 1
                               /\ JsonObject(file[i][1])
                               /\ file[i][1].event = "downloaded"
                               /\ file[i][1].dedupe_key # "" } }

\* C26: whatever lines ledger.jsonl holds, load_completed_keys returns, and
\* what it returns is exactly the set of non-empty dedupe keys of the
\* well-formed `downloaded` events.
LoadCompletedKeysNeverFails ==
    (replay # None /\ replay.outcome # None) =>
        /\ replay.outcome[1].raised = ""
        /\ replay.outcome[1].completed = WellFormedDownloadedKeys(replay.lines)

\* A ledger with a `downloaded` event for m2:a1 followed by a line holding
\* the JSON text null has been read.
NonObjectLineReadSeen ==
    /\ replay # None
    /\ replay.lines = << << Event("downloaded", 1, "m2:a1") >>, << [json |-> "null"] >> >>
    /\ replay.outcome # None

\* C30: when two runs append to the same ledger at once, every line of the
\* file holds the text of exactly one event: no line mixes two events and
\* none is left empty.
LedgerLinesAreWholeEvents ==
    appenders # None =>
        \A i \in 1..Len(appenders.lines) : Len(appenders.lines[i]) = 1

\* C27: a command given --overlap-hours < 0, --max-pages <= 0,
\* --max-messages <= 0 (download-new) or --top <= 0 (download-recent) ends with
\* ValueError in the step that starts it: no run is ever in progress with
\* such arguments, and the step leaves the mailbox unread (no run record, no
\* download call) and the stream directory, ledger, state file and its
\* temporary file as they were.
ValidationBeforeSideEffects ==
    /\ [](/\ run.mode = "new" =>
                run.overlap_hours >= 0 /\ run.max_pages > 0 /\ run.max_messages > 0
          /\ run.mode = "recent" => run.top > 0)
    /\ [][(runs' # runs /\ pc' = "idle" /\ lastResult'.at = "arguments") =>
            /\ lastResult'.error = "ValueError"
            /\ run' = NoRun
            /\ UNCHANGED << mailbox, streamDir, stateFile, tmpFile, ledger, downloads >>]_vars

\* After a run that committed its state, a download-new command was refused
\* for its arguments.
RefusedArgumentsSeen ==
    /\ lastResult.status = "error"
    /\ lastResult.at = "arguments"
    /\ lastResult.mode = "new"
    /\ runs = 2
    /\ stateFile # << >>
    /\ Len(ledger) >= 2

\* C25: while state.json holds text that is not valid JSON, download-recent
\* and download-new end with ValueError in the step that starts them and
\* `state status` reports ValueError; none of them appends to the ledger,
\* fetches an attachment or writes state.json or its temporary file.
UnreadableStateIsHardFailure ==
    [][(stateFile # << >> /\ ~stateFile[1].complete) =>
          /\ runs' # runs =>
                /\ lastResult'.status = "error"
                /\ lastResult'.error = "ValueError"
                /\ pc' = "idle"
                /\ run' = NoRun
          /\ stateResult'.action = "status" =>
                /\ stateResult'.status = "error"
                /\ stateResult'.error = "ValueError"
          /\ (runs' # runs \/ stateResult'.action = "status") =>
                UNCHANGED << stateFile, tmpFile, ledger, downloads >>]_vars

\* On the damaged stream a download command with valid arguments, then
\* `state status`, have both failed.
UnreadableStateRefusedSeen ==
    /\ stateFile = DamagedStream.stateFile
    /\ ledger = DamagedStream.ledger
    /\ lastResult.status = "error"
    /\ lastResult.error = "ValueError"
    /\ lastResult.at = "idle"
    /\ stateResult.action = "status"
    /\ stateResult.status = "error"

\* The pending entries a run started with whose key an earlier run had
\* already logged as downloaded.
StaleAtStart(r) ==
    { k \in DOMAIN r.pending_before :
        \E i \in 1..Len(ledger) :
            /\ Len(ledger[i]) = 1
            /\ ledger[i][1].event = "downloaded"
            /\ ledger[i][1].dedupe_key = k
            /\ ledger[i][1].run_id < r.run_id }

\* C24: a download-new run that started with a pending entry whose key
\* already had a `downloaded` event makes no download call for that key, and
\* the state it has committed no longer lists the entry.
StalePendingSelfHeals ==
    (pc = "completed" /\ run.mode = "new") =>
        \A k \in StaleAtStart(run) :
            /\ k \notin DOMAIN stateFile[1].pending_failures
            /\ \A j \in 1..Len(downloads) :
                  downloads[j].run_id = run.run_id => downloads[j].dedupe_key # k

\* The keys of the files run rid has saved.
KeysSavedBy(rid) ==
    { downloads[j].dedupe_key : j \in
        { i \in DOMAIN downloads : downloads[i].run_id = rid /\ downloads[i].saved } }

\* The last event of a ledger.
LastEvent(file) == file[Len(file)][1]

\* C21: the completed set of a run in progress is the keys of the
\* `downloaded` events in the ledger plus the keys of the files the run has
\* saved itself, whatever state.json holds; an attachment of the message
\* loop is skipped exactly when force_redownload is off and its key is in
\* that set, and a pending entry retried is downloaded only when its key is
\* outside the set and skipped only when it is inside: counters and pending
\* entries of the stream state have no part in it.
SkipDecisionFromLedgerOnly ==
    /\ [](run.run_id # 0 => run.completed_keys = DownloadedKeys \cup KeysSavedBy(run.run_id))
    /\ [][(pc = "attach" /\ pc' # "idle") =>
            IF ~run.force_redownload /\ CurrentKey \in run.completed_keys
            THEN /\ ledger' = Append(ledger, << Event("skipped_already_downloaded",
                                                       run.run_id, CurrentKey) >>)
                 /\ downloads' = downloads
            ELSE /\ ledger' # ledger
                 /\ LastEvent(ledger').event # "skipped_already_downloaded"]_vars
    /\ [][(pc = "retry" /\ pc' # "idle") =>
            IF Head(run.pending_todo) \in run.completed_keys
            THEN downloads' = downloads
            ELSE \/ ledger' = ledger
                 \/ LastEvent(ledger').event # "skipped_already_downloaded"]_vars

\* On the stale stream, whose state still lists m2:a1 as a pending failure
\* with one failure counted, the retry pass of a new run has skipped m2:a1
\* because the ledger holds its `downloaded` event.
SkippedAgainstStateSeen ==
    /\ run.mode = "new"
    /\ stateFile = StaleStream.stateFile
    /\ "m2:a1" \in DOMAIN stateFile[1].pending_failures
    /\ LastEvent(ledger) = Event("skipped_already_downloaded", run.run_id, "m2:a1")
    /\ run.retry_skipped_total = 1
    /\ KeysSavedBy(run.run_id) = {}

\* Whether the retry loop fetches a pending entry again (line 727).
HasBothIds(entry) == entry.message_id # "" /\ entry.attachment_id # ""

\* The keys a sequence holds.
Range(seq) == { seq[i] : i \in 1..Len(seq) }

\* C22: a download-new run takes the pending entries state.json held when
\* it started, all of them and each once; every step of the retry pass takes
\* the next of them, never one recorded meanwhile: an entry with message id
\* and attachment id is retried and counted, one without is passed over with
\* nothing done; the listing is asked for only after the last of them, and
\* the retries then made are as many as the entries with both ids.
RetryPassOverSnapshot ==
    /\ [](run.mode = "new" =>
            /\ pc = "retry" => run.pending_todo # << >> /\ run.messages = << >>
            /\ pc \notin {"retry", "idle"} =>
                  /\ run.pending_todo = << >>
                  /\ run.retried_count =
                        Cardinality({ k \in DOMAIN run.pending_before :
                                        HasBothIds(run.pending_before[k]) })
                  /\ run.retried_count = run.retried_success + run.retried_failed)
    /\ [][(pc = "idle" /\ run'.mode = "new") =>
            /\ run'.pending_before = load_stream_state(stateFile).pending_failures
            /\ Range(run'.pending_todo) = DOMAIN run'.pending_before
            /\ Len(run'.pending_todo) = Cardinality(DOMAIN run'.pending_before)]_vars
    /\ [][(pc = "retry" /\ pc' # "idle") =>
            LET key == Head(run.pending_todo)
            IN /\ key \in DOMAIN run.pending_before
               /\ run'.pending_todo = Tail(run.pending_todo)
               /\ run'.pending_before = run.pending_before
               /\ IF HasBothIds(run.pending_before[key])
                  THEN /\ run'.retried_count = run.retried_count + 1
                       /\ ledger' # ledger
                  ELSE /\ run'.retried_count = run.retried_count
                       /\ run'.state = run.state
                       /\ UNCHANGED << ledger, downloads >>]_vars

\* A run started with two pending entries, m3:a1 and m3:logo.png:7 (which
\* has no attachment id), and is about to list: one retry was made.
OnePassedOverOneRetriedSeen ==
    /\ run.mode = "new"
    /\ pc = "list"
    /\ DOMAIN run.pending_before = {"m3:a1", "m3:logo.png:7"}
    /\ run.retried_count = 1
    /\ run.retried_success = 1

\* C22 as stated: when the retry pass is over, every entry of the snapshot
\* has been retried once.
RetryPassRetriesEveryEntry ==
    (run.mode = "new" /\ pc = "list") =>
        run.retried_count = Cardinality(DOMAIN run.pending_before)

\* The download call a step has added, if it added one.
CallMade == Len(downloads') = Len(downloads) + 1

NewCall == downloads'[Len(downloads')]

\* C23: a download-new run appends a `downloaded` event only for a key that
\* has none in the ledger and whose download was never logged before, and it
\* makes a download call only for a key without `downloaded` event: over
\* download-new runs a key gets at most one `downloaded` event, and once it
\* has one its bytes are not fetched again.  (Bytes fetched whose save or
\* ledger append failed are fetched again by a later run.)
OneDownloadedEventPerKey ==
    /\ [][(run.mode = "new" /\ Len(ledger') = Len(ledger) + 1
                            /\ LastEvent(ledger').event = "downloaded") =>
            LET key == LastEvent(ledger').dedupe_key
            IN /\ key \notin DownloadedKeys
               /\ \A j \in DOMAIN downloads :
                     downloads[j].dedupe_key = key => ~downloads[j].logged
               /\ CallMade /\ NewCall.dedupe_key = key /\ NewCall.logged]_vars
    /\ [][(run.mode = "new" /\ CallMade) => NewCall.dedupe_key \notin DownloadedKeys]_vars

\* A download-new run that started with m3:a1 pending downloaded it in its
\* retry pass and, meeting it again in its scan, has skipped it: the ledger
\* holds one `downloaded` event for the key.
RetryAndScanMetSameAttachmentSeen ==
    /\ run.mode = "new"
    /\ "m3:a1" \in DOMAIN run.pending_before
    /\ run.retry_downloaded_total = 1
    /\ LastEvent(ledger) = Event("skipped_already_downloaded", run.run_id, "m3:a1")
    /\ Cardinality({ i \in 1..Len(ledger) :
            ledger[i] = << Event("downloaded", run.run_id, "m3:a1") >> }) = 1
    /\ Cardinality({ e \in LedgerEvents :
            e.event = "downloaded" /\ e.dedupe_key = "m3:a1" }) = 1

\* C23 as stated, for the bytes: a download-new run does not fetch with
\* success the bytes of a key that it, or the download-new run before it,
\* has already fetched with success.
BytesFetchedAtMostOnce ==
    [][(run.mode = "new" /\ CallMade /\ NewCall.fetched) =>
          \A j \in DOMAIN downloads :
              (/\ downloads[j].dedupe_key = NewCall.dedupe_key
               /\ \/ downloads[j].run_id = run.run_id
                  \/ /\ lastResult.mode = "new"
                     /\ downloads[j].run_id = lastResult.run_id)
              => ~downloads[j].fetched]_vars

\* C34: whatever download-recent and download-new runs a stream has had
\* since state.json was absent, the document in state.json has a cursor
\* exactly when its first_run_completed is true.
CursorIffFirstRunCompleted ==
    stateFile # << >> =>
        (stateFile[1].cursor_received_utc # None <=> stateFile[1].first_run_completed)

\* After a download-new run committed cursor and flag, a download-recent
\* run has committed its own document, which still carries both.
RecentCommittedAfterNewSeen ==
    /\ pc = "completed"
    /\ run.mode = "recent"
    /\ lastResult.mode = "new"
    /\ lastResult.status = "ok"
    /\ stateFile = << run.state >>
    /\ stateFile[1].first_run_completed
    /\ stateFile[1].cursor_received_utc # None

\* C37: the document a download-recent run has written to state.tmp, about
\* to replace state.json, carries the cursor and the first-run flag of the
\* state.json the run loaded; the download-new run that follows a stream's
\* first command, a download-recent run, takes the first-run backfill
\* window.
RecentKeepsIncrementalPosition ==
    /\ (pc = "replace" /\ run.mode = "recent") =>
          /\ tmpFile[1].cursor_received_utc = load_stream_state(stateFile).cursor_received_utc
          /\ tmpFile[1].first_run_completed = load_stream_state(stateFile).first_run_completed
    /\ (run.mode = "new" /\ run.run_id = 2 /\ lastResult.mode = "recent"
                         /\ lastResult.run_id = 1) =>
          /\ run.first_run
          /\ run.cursor_before = None
          /\ run.since = iso_utc(run.run_started - FIRST_RUN_BACKFILL_DAYS * Day)

\* A download-recent run completed and committed its state; the
\* download-new run after it scans from the backfill window.
BackfillAfterRecentSeen ==
    /\ run.mode = "new"
    /\ lastResult.mode = "recent"
    /\ lastResult.status = "ok"
    /\ lastResult.downloaded_count > 0
    /\ stateFile # << >>
    /\ stateFile[1].downloaded_total > 0
    /\ run.first_run
    /\ run.since = iso_utc(run.run_started - FIRST_RUN_BACKFILL_DAYS * Day)

\* C35: in the state a completed run has committed, no key listed in
\* pending_failures has a `downloaded` event in the ledger.
NoPendingKeyIsDownloaded ==
    (pc = "completed" /\ stateFile # << >>) =>
        \A k \in DOMAIN stateFile[1].pending_failures : k \notin DownloadedKeys

\* C36: in every per-message result a run holds or has returned,
\* attachments_total is the sum of the three counts and each count is the
\* length of its list.
ResultCountsAddUp ==
    \A results \in {run.message_results, lastResult.message_results} :
        \A i \in 1..Len(results) :
            LET result == results[i]
            IN /\ result.attachments_total =
                    result.downloaded_count + result.skipped_count + result.failed_count
               /\ result.downloaded_count = Len(result.downloaded)
               /\ result.skipped_count = Len(result.skipped)
               /\ result.failed_count = Len(result.failed)

\* The lines of the ledger that hold one event of run rid.
LinesOf(rid) == { i \in 1..Len(ledger) : Len(ledger[i]) = 1 /\ ledger[i][1].run_id = rid }

ItemEvents == {"downloaded", "skipped_already_downloaded", "failed"}

\* C33: the first line a run leaves in the ledger is its one run_started
\* event, and its run_completed event, when there is one, is its last line;
\* run_completed is appended by the run whose state is saved, when
\* state.json holds the state of that run, and for download-new it carries
\* the cursor of the state.json the run loaded and the cursor of the
\* state.json it saved.
LedgerRunBrackets ==
    /\ [](\A i \in 1..Len(ledger) :
            Len(ledger[i]) = 1 =>
                LET e == ledger[i][1]
                    mine == LinesOf(e.run_id)
                IN /\ e.event = "run_started" <=> \A j \in mine : i <= j
                   /\ e.event = "run_completed" => \A j \in mine : j <= i
                   /\ e.event \in ItemEvents =>
                         \E j \in mine : j < i /\ ledger[j][1].event = "run_started")
    /\ []((run.mode = "new" /\ pc \notin {"idle", "completed"}) =>
            run.cursor_before = load_stream_state(stateFile).cursor_received_utc)
    /\ [][(Len(ledger') > Len(ledger) /\ LastEvent(ledger').event = "run_completed") =>
            /\ pc = "completed"
            /\ LastEvent(ledger').run_id = run.run_id
            /\ stateFile = << run.state >>
            /\ tmpFile = << >>
            /\ UNCHANGED stateFile
            /\ run.mode = "new" =>
                  /\ LastEvent(ledger').cursor_before = run.cursor_before
                  /\ LastEvent(ledger').cursor_after = stateFile[1].cursor_received_utc]_vars

\* The second download-new run of a stream has completed after retrying a
\* pending failure and scanning: its bracket records the cursor the first
\* run committed and the later cursor it committed itself.
SecondBracketClosedSeen ==
    /\ pc = "idle"
    /\ lastResult.mode = "new"
    /\ lastResult.status = "ok"
    /\ lastResult.run_id = 2
    /\ LastEvent(ledger).event = "run_completed"
    /\ LastEvent(ledger).run_id = 2
    /\ LastEvent(ledger).cursor_before # None
    /\ LastEvent(ledger).cursor_after[1] > LastEvent(ledger).cursor_before[1]
    /\ \E i \in LinesOf(2) : ledger[i][1].event = "downloaded"
    /\ \E i \in LinesOf(1) : ledger[i][1].event = "run_completed"

\* ------------------------------------------------ the stream of a command
\* Commands run one after the other with the same profile, account and
\* folder selector against the same mailbox.
MaxCommands == 2

Profiles == {"default", "work"}

AccountHomeId == "home-1"

\* What GET /me/mailFolders/{token} answers in the mailbox "plain": the
\* well-known name and the ids of its folders are known, nothing else is.
FolderMeta(token) ==
    CASE token \in {"inbox", ROOT_ID} -> Some(Folder(ROOT_ID, "Inbox"))
      [] token = "f1" -> Some(Folder("f1", "Reports"))
      [] OTHER -> None

\* The folder arguments of a command (--folder, --folder-id, --folder-path).
FolderArgs ==
    [ folder : {None, Some("inbox"), Some("f1")},
      folder_id : {None, Some("f1"), Some(ROOT_ID)},
      folder_path : {None, Some(<< "Reports" >>)} ]

\* How the metadata request of a command ends: answered, or GraphAPIError
\* (a time-out, a status that is still an error after the retries).
Lookups == {"answered", "GraphAPIError"}

\* client.get_mail_folder inside the try of resolve_folder_selector (lines
\* 1278-1285 and 1300-1307): the id of the answer, the given token when the
\* request fails or the folder is unknown.
BestEffortId(token, lookup) ==
    IF lookup = "answered" /\ FolderMeta(token) # None /\ FolderMeta(token)[1].id # ""
    THEN FolderMeta(token)[1].id
    ELSE token

\* resolve_folder_selector (lines 1265-1316).
resolve_folder_selector(args, lookup) ==
    IF args.folder_id # None
    THEN [ status |-> "ok", folder_mode |-> "id", folder_input |-> Strip(args.folder_id[1]),
           folder_token |-> BestEffortId(Strip(args.folder_id[1]), lookup),
           resolved_folder_id |-> BestEffortId(Strip(args.folder_id[1]), lookup) ]
    ELSE IF args.folder_path # None
    THEN IF lookup = "GraphAPIError"
         THEN [ status |-> "GraphAPIError", folder_mode |-> "path", folder_input |-> args.folder_path[1],
                folder_token |-> "", resolved_folder_id |-> "" ]
         ELSE LET walked == resolve_folder_path_selector(FolderTrees["plain"], args.folder_path[1])
              IN [ status |-> walked.status, folder_mode |-> "path", folder_input |-> args.folder_path[1],
                   folder_token |-> walked.resolved_folder_id,
                   resolved_folder_id |-> walked.resolved_folder_id ]
    ELSE LET token == IF args.folder # None /\ Strip(args.folder[1]) # ""
                      THEN Strip(args.folder[1]) ELSE "inbox"
         IN [ status |-> "ok", folder_mode |-> "token", folder_input |-> token,
              folder_token |-> token,
              resolved_folder_id |-> BestEffortId(token, lookup) ]

\* build_stream_paths (lines 1463-1472): the stream id is the first 24 hex
\* digits of the SHA-256 of the seed; it is kept here as the seed itself,
\* two seeds of this model having different digests.
build_stream_paths(profile, account_home_id, folder_id) ==
    [ stream_id |-> << profile, account_home_id, folder_id >> ]

\* The stream a command works on (lines 657-670, and the same lines of the
\* other attachment commands, 459-472 and 524-537).
StreamOfCommand(profile, args, lookup) ==
    LET res == resolve_folder_selector(args, lookup)
    IN IF res.status # "ok"
       THEN [ status |-> res.status, lookup |-> lookup, stream_id |-> << >> ]
       ELSE [ status |-> "ok", lookup |-> lookup,
              stream_id |-> build_stream_paths(profile, AccountHomeId,
                                IF res.resolved_folder_id # "" THEN res.resolved_folder_id
                                ELSE res.folder_token).stream_id ]

\* One more command with the selector of the others.
RunCommand(lookup) ==
    /\ streams # None
    /\ Len(streams[1].used) < MaxCommands
    /\ streams' = Some([streams[1] EXCEPT
                        !.used = Append(@, StreamOfCommand(streams[1].profile, streams[1].args, lookup))])
    /\ UNCHANGED << streamVars, dir, saves, selector, resolution, http, paging, replay, appenders, savers, torn, cli >>

InitStreams ==
    /\ StreamIdle
    /\ streams \in { Some([ profile |-> p, args |-> a, used |-> << >> ]) : p \in Profiles, a \in FolderArgs }
    /\ FilesIdle /\ SelectorIdle /\ HttpIdle /\ PagingIdle /\ ReplayIdle /\ AppendersIdle
    /\ SaversIdle /\ TornIdle /\ CliIdle

NextStreams == \E lookup \in Lookups : RunCommand(lookup)

SpecStreams == InitStreams /\ [][NextStreams]_vars

\* C38: the commands that got a stream with one profile, account and folder
\* selector all got the same stream id, whether their metadata requests
\* were answered or not.
SameSelectorSameStream ==
    streams # None =>
        \A i, j \in DOMAIN streams[1].used :
            (streams[1].used[i].status = "ok" /\ streams[1].used[j].status = "ok") =>
                streams[1].used[i].stream_id = streams[1].used[j].stream_id

\* ------------------------------------------- two runs saving one stream
\* Two processes call save_stream_state (lines 1529-1536) on one stream
\* directory. Both write the path state.tmp: write_text opens it with
\* truncation and writes the text from offset 0, in as many write calls as
\* the text needs; replace renames state.tmp onto state.json and raises
\* FileNotFoundError when state.tmp is no longer there. A file is known by
\* its number: 0 is the state.json of an earlier run, p the file process p
\* created, NoFile no file.
DocChunks == 2

Savers == 1..2

NoFile == -1

Hole == << 0, 0 >>

\* json.dumps(state, indent=2, sort_keys=True) of process p, as the pieces
\* the write calls carry.
Doc(p) == [ k \in 1..DocChunks |-> << p, k >> ]

\* A write of one piece at offset k-1 of a file holding content.
WriteAt(content, k, piece) ==
    [ i \in 1..Max(Len(content), k) |->
        IF i = k THEN piece ELSE IF i <= Len(content) THEN content[i] ELSE Hole ]

NewSavers(earlier) ==
    [ files |-> [ f \in 0..2 |-> IF f = 0 /\ earlier THEN Doc(0) ELSE << >> ],
      tmp |-> NoFile,
      state |-> IF earlier THEN 0 ELSE NoFile,
      pcs |-> [ p \in Savers |-> "open" ],
      handle |-> [ p \in Savers |-> NoFile ],
      off |-> [ p \in Savers |-> 0 ] ]

\* open(state.tmp, "w") of write_text (line 1535): the file under the path
\* is emptied, or created.
OpenTmp(p) ==
    /\ savers # None
    /\ savers[1].pcs[p] = "open"
    /\ LET f == IF savers[1].tmp = NoFile THEN p ELSE savers[1].tmp
       IN savers' = Some([savers[1] EXCEPT !.files[f] = << >>, !.tmp = f,
                                           !.handle[p] = f, !.pcs[p] = "write"])
    /\ UNCHANGED << streamVars, dir, saves, selector, resolution, http, paging, replay, appenders, streams, torn, cli >>

\* One write call of write_text (line 1535) on the open file; the file is
\* closed after the last one.
WriteChunk(p) ==
    /\ savers # None
    /\ savers[1].pcs[p] = "write"
    /\ LET k == savers[1].off[p] + 1
           f == savers[1].handle[p]
       IN savers' = Some([savers[1] EXCEPT
                            !.files[f] = WriteAt(@, k, Doc(p)[k]),
                            !.off[p] = k,
                            !.pcs[p] = IF k = DocChunks THEN "replace" ELSE "write"])
    /\ UNCHANGED << streamVars, dir, saves, selector, resolution, http, paging, replay, appenders, streams, torn, cli >>

\* tmp_file.replace(state_file) (line 1536).
ReplaceTmp(p) ==
    /\ savers # None
    /\ savers[1].pcs[p] = "replace"
    /\ savers' = Some(IF savers[1].tmp = NoFile
                      THEN [savers[1] EXCEPT !.pcs[p] = "FileNotFoundError"]
                      ELSE [savers[1] EXCEPT !.state = savers[1].tmp, !.tmp = NoFile,
                                             !.pcs[p] = "saved"])
    /\ UNCHANGED << streamVars, dir, saves, selector, resolution, http, paging, replay, appenders, streams, torn, cli >>

InitSavers ==
    /\ StreamIdle
    /\ savers \in { Some(NewSavers(earlier)) : earlier \in BOOLEAN }
    /\ FilesIdle /\ SelectorIdle /\ HttpIdle /\ PagingIdle /\ ReplayIdle /\ AppendersIdle
    /\ StreamsIdle /\ TornIdle /\ CliIdle

NextSavers == \E p \in Savers : OpenTmp(p) \/ WriteChunk(p) \/ ReplaceTmp(p)

SpecSavers == InitSavers /\ [][NextSavers]_vars

\* What state.json holds.
StateJson == IF savers[1].state = NoFile THEN << >> ELSE savers[1].files[savers[1].state]

\* C31: when the two calls have ended, both have returned and state.json
\* is the whole document of one of them.
LastWriterWins ==
    (savers # None /\ \A p \in Savers : savers[1].pcs[p] \in {"saved", "FileNotFoundError"}) =>
        /\ \A p \in Savers : savers[1].pcs[p] = "saved"
        /\ \E p \in Savers : StateJson = Doc(p)

\* ------------------------------------------------------------------ main
\* The exception classes raised under main(), each with its base class:
\* the four RuntimeError subclasses of auth_manager.py (lines 19-27) and
\* graph_client.py (line 13), TokenStoreError (token_store.py line 17), and
\* the built-in ones.
BaseClass ==
    [ AuthConfigError |-> "RuntimeError", DependencyError |-> "RuntimeError",
      AuthError |-> "RuntimeError", GraphAPIError |-> "RuntimeError",
      TokenStoreError |-> "RuntimeError", RuntimeError |-> "Exception",
      ValueError |-> "Exception", JSONDecodeError |-> "ValueError",
      OSError |-> "Exception", FileNotFoundError |-> "OSError",
      AttributeError |-> "Exception", Exception |-> "" ]

RECURSIVE IsInstance(_, _)
IsInstance(class, of) ==
    class # "" /\ (class = of \/ IsInstance(BaseClass[class], of))

\* The tuple of the except clause of main (line 249).
CaughtByMain == {"AuthConfigError", "AuthError", "DependencyError", "GraphAPIError", "ValueError", "OSError"}

MainCatches(class) == \E of \in CaughtByMain : IsInstance(class, of)

\* What a command can raise up to main: a missing client id
\* (AuthConfigError), a required keyring without a backend (TokenStoreError,
\* token_store.py lines 37-41, from AuthManager.__init__), no signed-in
\* account (AuthError, line 1176), an API error, a refused argument, an
\* unreadable state.json (ValueError from JSONDecodeError, lines 1513-1514),
\* a file system error, a ledger line that is not an object
\* (AttributeError, line 1567), a missing dependency.
RaisedUnderMain ==
    {"AuthConfigError", "TokenStoreError", "AuthError", "GraphAPIError", "ValueError",
     "OSError", "FileNotFoundError", "AttributeError", "DependencyError"}

Formats == {"json", "text"}

NewCli(format, raised, failed_count) ==
    [ format |-> format, raised |-> raised, failed_count |-> failed_count, out |-> None ]

\* main (lines 229-260) and the interpreter around it (line 1756,
\* raise SystemExit(main())): the result is emitted with ok true and the
\* exit code is 0; an exception of the tuple is emitted as an error with
\* its class name and the exit code is 1; any other exception leaves main,
\* the interpreter prints the traceback and exits with 1.
Main ==
    /\ cli # None
    /\ cli[1].out = None
    /\ cli' = Some([cli[1] EXCEPT !.out =
            Some(IF cli[1].raised = None
                 THEN [ emitted |-> TRUE, ok |-> TRUE, type |-> "", exit_code |-> 0, traceback |-> FALSE ]
                 ELSE IF MainCatches(cli[1].raised[1])
                 THEN [ emitted |-> TRUE, ok |-> FALSE, type |-> cli[1].raised[1], exit_code |-> 1,
                        traceback |-> FALSE ]
                 ELSE [ emitted |-> FALSE, ok |-> FALSE, type |-> "", exit_code |-> 1,
                        traceback |-> TRUE ])])
    /\ UNCHANGED << streamVars, dir, saves, selector, resolution, http, paging, replay, appenders, streams, savers, torn >>

InitCli ==
    /\ StreamIdle
    /\ cli \in { Some(NewCli(f, r, n)) : f \in Formats, r \in {None} \cup { Some(c) : c \in RaisedUnderMain }, n \in 0..Res }
    /\ FilesIdle /\ SelectorIdle /\ HttpIdle /\ PagingIdle /\ ReplayIdle /\ AppendersIdle
    /\ StreamsIdle /\ SaversIdle /\ TornIdle

NextCli == Main

SpecCli == InitCli /\ [][NextCli]_vars

\* C32: a command that failed emitted an error with the class of the
\* failure and ended with a non-zero exit code; a command that completed,
\* with attachment failures or without, emitted ok = true and ended with 0.
EveryFailureIsStructured ==
    (cli # None /\ cli[1].out # None) =>
        LET out == cli[1].out[1]
        IN IF cli[1].raised = None
           THEN out.emitted /\ out.ok /\ out.exit_code = 0
           ELSE out.emitted /\ ~out.ok /\ out.type = cli[1].raised[1] /\ out.exit_code # 0

\* ------------------------------------- a ledger with an unfinished line
\* Runs follow one another on one ledger file. append_ledger_event (lines
\* 1539-1549) writes the text of the event and then the newline; a process
\* can be terminated before the text, in it, between the two or after. The
\* file is the finished lines and the unterminated tail; a piece is the
\* text of an event, whole or cut short.
ItemsPerRun == 2

MaxTornRuns == 3

DedupeKeyOf(r, i) == "m" \o ToString(r) \o ":a" \o ToString(i)

\* Variant: a run that does not announce itself.
EventsOfRunWithoutRunStarted(r) ==
    [ i \in 1..ItemsPerRun |-> Event("downloaded", r, DedupeKeyOf(r, i)) ]
        \o << Event("run_completed", r, "") >>

\* The events a run appends, in order: run_started (lines 562 and 700),
\* one downloaded event for each attachment it saves (line 1017), and
\* run_completed (lines 612 and 845).
EventsOfRun(r) ==
    << Event("run_started", r, "") >>
        \o [ i \in 1..ItemsPerRun |-> Event("downloaded", r, DedupeKeyOf(r, i)) ]
        \o << Event("run_completed", r, "") >>

NewTorn ==
    [ lines |-> << >>, tail |-> << >>, run_id |-> 0, next |-> 0, at |-> "idle",
      started |-> 0, appended |-> {}, read |-> << >> ]

\* The lines `for line in handle` yields (line 1560): the finished lines
\* and, last, the tail without a newline.
LinesRead(t) == t.lines \o (IF t.tail = << >> THEN << >> ELSE << t.tail >>)

\* json.loads accepts a line that is one whole text (lines 1563-1566).
LineParses(line) == Len(line) = 1 /\ line[1].whole

\* load_completed_keys (lines 1558-1571) on the file of t.
load_completed_keys_of_text(t) ==
    { line[1].text.dedupe_key :
        line \in { l \in Range(LinesRead(t)) :
                     /\ LineParses(l)
                     /\ l[1].text.event = "downloaded"
                     /\ l[1].text.dedupe_key # "" } }

\* A run starts and loads the completed keys (lines 546 and 678).
TornStart ==
    /\ torn # None
    /\ torn[1].run_id = 0
    /\ torn[1].started < MaxTornRuns
    /\ torn' = Some([torn[1] EXCEPT !.run_id = torn[1].started + 1, !.started = @ + 1,
                                    !.next = 1, !.at = "text",
                                    !.read = Append(@, load_completed_keys_of_text(torn[1]))])
    /\ UNCHANGED << streamVars, dir, saves, selector, resolution, http, paging, replay, appenders, streams, savers, cli >>

\* handle.write(json.dumps(event)) (line 1548) reaches the file, whole, or
\* in part when the process is terminated in it.
WriteText(whole) ==
    /\ torn # None
    /\ torn[1].at = "text"
    /\ LET piece == [ text |-> EventsOfRun(torn[1].run_id)[torn[1].next], whole |-> whole ]
       IN torn' = Some(IF whole
                       THEN [torn[1] EXCEPT !.tail = Append(@, piece), !.at = "newline"]
                       ELSE [torn[1] EXCEPT !.tail = Append(@, piece), !.at = "idle", !.run_id = 0])
    /\ UNCHANGED << streamVars, dir, saves, selector, resolution, http, paging, replay, appenders, streams, savers, cli >>

\* handle.write("\n") (line 1549) reaches the file: the append is complete.
WriteNewline ==
    /\ torn # None
    /\ torn[1].at = "newline"
    /\ LET r == torn[1].run_id
           e == EventsOfRun(r)[torn[1].next]
           last == torn[1].next = Len(EventsOfRun(r))
       IN torn' = Some([torn[1] EXCEPT
                          !.lines = Append(@, torn[1].tail),
                          !.tail = << >>,
                          !.appended = IF e.event = "downloaded" THEN @ \cup {e.dedupe_key} ELSE @,
                          !.next = @ + 1,
                          !.at = IF last THEN "idle" ELSE "text",
                          !.run_id = IF last THEN 0 ELSE r])
    /\ UNCHANGED << streamVars, dir, saves, selector, resolution, http, paging, replay, appenders, streams, savers, cli >>

\* The process is terminated between two writes.
Terminate ==
    /\ torn # None
    /\ torn[1].run_id # 0
    /\ torn' = Some([torn[1] EXCEPT !.run_id = 0, !.at = "idle"])
    /\ UNCHANGED << streamVars, dir, saves, selector, resolution, http, paging, replay, appenders, streams, savers, cli >>

InitTorn ==
    /\ StreamIdle
    /\ torn = Some(NewTorn)
    /\ FilesIdle /\ SelectorIdle /\ HttpIdle /\ PagingIdle /\ ReplayIdle /\ AppendersIdle
    /\ StreamsIdle /\ SaversIdle /\ CliIdle

NextTorn ==
    \/ TornStart
    \/ \E whole \in BOOLEAN : WriteText(whole)
    \/ WriteNewline
    \/ Terminate

SpecTorn == InitTorn /\ [][NextTorn]_vars

\* C39: the key of every downloaded event whose append was completed is
\* among the completed keys read from the file from then on, whatever
\* earlier runs left unfinished; a run that starts reads them all.
UnfinishedLineSparesLaterEvents ==
    torn # None =>
        /\ torn[1].appended \subseteq load_completed_keys_of_text(torn[1])
        /\ (torn[1].at = "text" /\ torn[1].next = 1) =>
              torn[1].appended \subseteq torn[1].read[Len(torn[1].read)]

\* Run 1 was terminated after the text of an event and before its newline,
\* run 2 completed the append of a downloaded event after that, and run 3
\* has started.
LaterRunAfterUnfinishedLineSeen ==
    /\ torn # None
    /\ torn[1].run_id = 3
    /\ \E i \in DOMAIN torn[1].lines :
          /\ Len(torn[1].lines[i]) = 2
          /\ torn[1].lines[i][1].whole
          /\ torn[1].lines[i][1].text.run_id = 1
          /\ torn[1].lines[i][2].text = Event("run_started", 2, "")
    /\ DedupeKeyOf(2, 1) \in torn[1].appended

====
